---- MODULE Spec2Model ----
(***************************************************************************)
(* A model of the locodiff trajectory-diffusion core:                      *)
(*   - DiffusionRunner (learn / save / load) with the EMA tracker,         *)
(*   - the EMA tracker driven directly through its four calls,             *)
(*   - DiffusionPolicy's observation history buffer (reset / act),         *)
(*   - DiffusionPolicy.forward with the inpainting sampler,                *)
(*   - ExpertDataset padding and masks with SlicerWrapper windowing.       *)
(* Each part has its own specification over the shared variables.          *)
(***************************************************************************)
EXTENDS Integers, Sequences, FiniteSets, TLC

\* ------------------------------------------------------------------ bounds
\* live parameter values are 0..MaxParam (one scalar stands for the tensors)
MaxParam == 2
\* cfg.num_iters, cfg.sim_interval, cfg.eval_interval, cfg.log_interval
NumIters == 3
SimInterval == 2
EvalInterval == 3
LogInterval == 1
\* num_steps_per_env: steps of one simulation rollout
NumStepsPerEnv == 2
\* number of test batches in one evaluation pass
NumTestBatches == 1
\* how many public calls (learn, save, load) one run of the runner makes
MaxCalls == 3
\* ema_decay as the fraction DecayNum / DecayDen
DecayNum == 1
DecayDen == 2

\* how many calls the direct driver of the EMA tracker makes
MaxEmaCalls == 4
\* parallel environments, history length T_cond, prediction horizon T
NumEnvs == 2
TCond == 2
THorizon == 2
\* raw observation values are 1..MaxObs (0 is the zero of a cleared buffer)
MaxObs == 2
\* how many calls (act, reset) the driver of the history buffer makes
MaxPolicyCalls == 3

\* observation and action dimensions of one trajectory step
ObsDim == 1
ActDim == 1
\* sampling_steps; resampling_steps is 1..MaxResample, jump_length 1..MaxJump
SamplingSteps == 2
MaxResample == 2
MaxJump == 2
\* a Gaussian draw is one of a few tensors with entries in -MaxNoise..MaxNoise;
\* the network's output has entries in 0..MaxDen
MaxNoise == 1
MaxDen == 1

\* datasets of 1..MaxEpisodes episodes of 1..MaxEpLen steps, windowed with
\* T_cond in 1..MaxTCond and T in 1..MaxT
MaxEpisodes == 2
MaxEpLen == 4
MaxTCond == 2
MaxT == 3
\* train_fraction as the fraction TrainNum / TrainDen
TrainNum == 1
TrainDen == 2

\* noise schedules: step counts 1 .. MaxSchedSteps, log noise levels within
\* -MaxLogSigma .. MaxLogSigma, linear noise levels within 1 .. MaxLinSigma
MaxSchedSteps == 4
MaxLogSigma == 2
MaxLinSigma == 3
\* guided denoiser: guidance weights 0 .. MaxGuidance, estimates, noise levels
\* and conditioning values within 0 .. MaxGuideVal
MaxGuidance == 2
MaxGuideVal == 2

\* recorded data: 1 .. MaxRows rows of 1 .. MaxRowLen steps each
MaxRows == 2
MaxRowLen == 3

\* ------------------------------------------------------------------ values
\* a NaN tensor value (also stands for Inf: both poison every later result)
NaN == 0 - 1
ParamVals == 0 .. MaxParam
None == << >>
Some(v) == << v >>

VARIABLES
  \* DiffusionRunner / DiffusionPolicy training state
  params,      \* live model parameters (policy.state_dict())
  optim,       \* optimizer state: number of optimizer steps taken
  sched,       \* lr scheduler state: number of scheduler steps taken
  norm,        \* normalizer statistics
  cur_iter,    \* current_learning_iteration
  use_ema,     \* cfg.use_ema
  log_dir,     \* TRUE when log_dir is not None
  ema,         \* EMA tracker: [shadow, collected]
  live,        \* "train": live parameters are the trained ones; "ema": substituted
  ckpt,        \* the checkpoint file at the runner's path: None or Some(record)
  \* control state of the caller and of learn
  pc,          \* position: "idle", learn's positions, "raised"
  it,          \* learn's loop variable
  tot_iter,    \* learn's loop bound
  k,           \* steps done in the current rollout / batches done in the evaluation
  ncalls,      \* public calls made so far
  ret,         \* what the last step did: [op, exc, nan]
  nan_seen,    \* a NaN loss was returned by an update of the current learn call
  io,          \* [saved, loaded, done]: the runner's state when its checkpoint was written,
               \* and whether the last load read that checkpoint ("own") or another
  steps,       \* the current learn call's counts of optimizer steps, scheduler
               \* steps and EMA updates, and the order of the last iteration's three
  executed,    \* the iteration indices trained by this runner, oldest first
  env,         \* the environment: [epoch, obs, goal]: resets so far, the
               \* observation it holds, the goal of its last reset
  loc_obs,     \* learn's local variable obs: [val, epoch], the observation and
               \* the reset count of the environment when it was obtained
  goal,        \* the goal handed to the policy by set_goal
  pin,         \* the final-step observation target of the last act of a rollout
  \* a caller driving the EMA tracker directly
  ema_calls,   \* the tracker calls made so far, oldest first
  \* DiffusionPolicy's inference state
  obs_hist,    \* history buffer: per environment, T_cond observations, oldest first
  p_ret,       \* the last direct policy call: [op, dones, before, cond, calls]
  pushed,      \* per environment, the observations pushed since its last reset
  \* DiffusionPolicy.forward and the sampler
  fcfg,        \* the policy's sampling configuration
  s_pc,        \* "idle", "sampling", "sampled"
  fdata,       \* forward's argument: [obs, input]
  x,           \* the sampler's working estimate
  tgt,         \* inpainting target
  mask,        \* inpainting mask
  lvl,         \* index of the current noise level
  rep,         \* repetitions done of the current resampling band
  ncalls_den,  \* denoiser calls made by the current sampler run
  fwd_out,     \* what forward returned
  act_out,     \* what act returned: None or Some([action, obs_traj])
  den_in,      \* the last denoiser call of the run: None or Some([x, lvl, rep]),
               \* the estimate passed, the level index and the repetition
  \* ExpertDataset, random_split and SlicerWrapper
  dcfg,        \* [lens, T_cond, T]: episode lengths and window configuration
  d_pc,        \* "raw", "ready"
  data,        \* ExpertDataset.data: [obs, action, mask], one padded row per episode
  train_idx,   \* Subset.indices of the train partition
  val_idx,     \* Subset.indices of the validation partition
  train_slices, \* SlicerWrapper.slices of the train set
  val_slices,  \* SlicerWrapper.slices of the validation set
  item,        \* what the last __getitem__ of a SlicerWrapper returned
  item_from,   \* the set that __getitem__ was called on: "none", "train", "val"
  item_slice,  \* the slice (i, start, end) that __getitem__ read
  \* the noise schedule
  sch_in,      \* [family, n, lo, hi]: the schedule's configuration
  sigmas,      \* the noise-level sequence built from it: None or Some(sequence)
  \* the guided denoiser (CFGWrapper)
  g_in,        \* [model, w, x, sigma, cond]: the wrapper and the arguments of a call
  g_out,       \* what the inference call returned: None or Some(value)
  \* ExpertDataset.__init__: the recorded file
  first_steps, \* data/first_steps: per row, per step, 1 at an episode start
  ep_splits    \* the episode segments cut from it: None or Some([obs, action])

runnerVars == << params, optim, sched, norm, cur_iter, use_ema, log_dir, ema, live,
                 ckpt, pc, it, tot_iter, k, ncalls, ret, nan_seen, io, steps, executed,
                 env, loc_obs, goal, pin >>
emaDriverVars == << ema_calls >>
policyVars == << obs_hist, p_ret, pushed >>
samplerVars == << fcfg, s_pc, fdata, x, tgt, mask, lvl, rep, ncalls_den, fwd_out, den_in, act_out >>
dataVars == << dcfg, d_pc, data, train_idx, val_idx, train_slices, val_slices, item,
              item_from, item_slice >>

scheduleVars == << sch_in, sigmas >>
guidanceVars == << g_in, g_out >>
splitVars == << first_steps, ep_splits >>

vars == << runnerVars, emaDriverVars, policyVars, samplerVars, dataVars, scheduleVars,
           guidanceVars, splitVars >>
notRunnerVars == << emaDriverVars, policyVars, samplerVars, dataVars, scheduleVars,
                    guidanceVars, splitVars >>

\* ------------------------------------------------------------ EMA tracker
\* shadow <- decay * shadow + (1 - decay) * current; NaN poisons the blend
Blend(s, p) ==
  IF s = NaN \/ p = NaN THEN NaN
  ELSE (DecayNum * s + (DecayDen - DecayNum) * p) \div DecayDen

EmaInit(p) == [shadow |-> p, collected |-> None]

EmaUpdate(e, p) == [e EXCEPT !.shadow = Blend(e.shadow, p)]

\* store: snapshot the live parameters
EmaStore(e, p) == [e EXCEPT !.collected = Some(p)]

\* copy_to: the live parameters become the shadow values
EmaCopyTo(e, p) == e.shadow

\* restore that copies back whatever is stored, and nothing when nothing is
RestoreOutcomeSilent(e, p) ==
  [params |-> IF e.collected = None THEN p ELSE e.collected[1], exc |-> FALSE]

\* restore: raises when nothing was stored; otherwise the live parameters
\* become the stored snapshot
RestoreOutcome(e, p) ==
  IF e.collected = None
  THEN [params |-> p, exc |-> TRUE]
  ELSE [params |-> e.collected[1], exc |-> FALSE]

EmaRestore(e, p) == RestoreOutcome(e, p).params

\* InferenceContext.__enter__: store and copy_to when use_ema
EnterInference(e, p, useEma) ==
  IF useEma
  THEN [ema |-> EmaStore(e, p), params |-> EmaCopyTo(EmaStore(e, p), p), live |-> "ema"]
  ELSE [ema |-> e, params |-> p, live |-> "train"]

\* InferenceContext.__exit__: restore when use_ema; runs on every exit of the block
ExitInference(e, p, useEma) ==
  IF useEma
  THEN [ema |-> e, params |-> EmaRestore(e, p), live |-> "train"]
  ELSE [ema |-> e, params |-> p, live |-> "train"]

\* ------------------------------------------------------- DiffusionPolicy
Envs == 1 .. NumEnvs
ObsVals == 1 .. MaxObs
ZeroRow == [t \in 1 .. TCond |-> 0]
ZeroHist == [e \in Envs |-> ZeroRow]

\* update_history that writes the new observation without shifting the rows
UpdateHistoryNoShift(h, o) ==
  [e \in Envs |-> [t \in 1 .. TCond |-> IF t < TCond THEN h[e][t] ELSE o[e]]]

\* update_history: shift every row by one and put the new observation last
UpdateHistory(h, o) ==
  [e \in Envs |-> [t \in 1 .. TCond |-> IF t < TCond THEN h[e][t + 1] ELSE o[e]]]

\* process (inference branch), lines 184-198: the conditioning window is the
\* first T_cond steps of the buffer update_history hands back
ProcessWindow(h) == [e \in Envs |-> SubSeq(h[e], 1, TCond)]

\* reset(dones) that indexes the buffer with the integer dones (no .bool()):
\* the rows zeroed are those whose 0-based index occurs as a value of dones
ResetHistoryByIndex(h, dones) ==
  [e \in Envs |-> IF \E j \in Envs : dones[j] = e - 1 THEN ZeroRow ELSE h[e]]

\* reset(dones): obs_hist[dones.bool()] = 0
ResetHistory(h, dones) ==
  [e \in Envs |-> IF dones[e] # 0 THEN ZeroRow ELSE h[e]]

\* reset(): obs_hist.zero_()
ResetAllHistory(h) == [e \in Envs |-> ZeroRow]

NoDones == [e \in Envs |-> 0]

InitPolicy ==
  /\ obs_hist = ZeroHist
  /\ p_ret = [op |-> "init", dones |-> NoDones, before |-> ZeroHist, cond |-> ZeroHist,
              calls |-> 0]
  /\ pushed = [e \in Envs |-> << >>]

PolicyUnused == InitPolicy

\* act, line 123 via process and update_history: the new observation of every
\* environment enters the buffer (the sampling itself is the sampler part)
PolicyAct ==
  /\ p_ret.calls < MaxPolicyCalls
  /\ \E o \in [Envs -> ObsVals] :
       /\ obs_hist' = UpdateHistory(obs_hist, o)
       /\ pushed' = [e \in Envs |-> Append(pushed[e], o[e])]
       /\ p_ret' = [op |-> "act", dones |-> NoDones, before |-> obs_hist,
                    cond |-> ProcessWindow(UpdateHistory(obs_hist, o)),
                    calls |-> p_ret.calls + 1]
  /\ UNCHANGED << runnerVars, emaDriverVars, samplerVars, dataVars, scheduleVars, guidanceVars, splitVars >>

\* reset(dones) with the done flags of the last environment step
PolicyReset ==
  /\ p_ret.calls < MaxPolicyCalls
  /\ \E dones \in [Envs -> {0, 1}] :
       /\ obs_hist' = ResetHistory(obs_hist, dones)
       /\ pushed' = [e \in Envs |-> IF dones[e] # 0 THEN << >> ELSE pushed[e]]
       /\ p_ret' = [op |-> "reset", dones |-> dones, before |-> obs_hist,
                    cond |-> p_ret.cond, calls |-> p_ret.calls + 1]
  /\ UNCHANGED << runnerVars, emaDriverVars, samplerVars, dataVars, scheduleVars, guidanceVars, splitVars >>

\* what the vectorised environment hands to the rollout: in the runner's part
\* the environments run in lockstep, every one seeing the same observation and
\* their episodes ending together
EnvObservations == { [e \in Envs |-> v] : v \in ObsVals }
EnvDones == { [e \in Envs |-> d] : d \in {0, 1} }

\* process that pushes the observation into the history on every call
ProcessHistoryAlwaysPush(h, hasAction, o) == UpdateHistory(h, o)

\* process, lines 180-189: data without an action is an inference call, whose
\* observation is pushed into the history; a batch with actions leaves it alone
ProcessHistory(h, hasAction, o) == IF hasAction THEN h ELSE UpdateHistory(h, o)

\* test that steps the optimizer and the schedule the way update does
TestOutcomeSteps(p, o, s) == [params |-> p, optim |-> o + 1, sched |-> s + 1]

\* test, lines 163-169: process, forward and the loss; no backward pass, no
\* optimizer or scheduler step
TestOutcome(p, o, s) == [params |-> p, optim |-> o, sched |-> s]

\* test(data): on a batch with actions it returns the loss; on data without
\* actions process pushes the observation, input is None and the loss raises
PolicyTest ==
  /\ p_ret.calls < MaxPolicyCalls
  /\ \E hasAction \in BOOLEAN, o \in EnvObservations :
       LET r == TestOutcome(params, optim, sched)
       IN /\ obs_hist' = ProcessHistory(obs_hist, hasAction, o)
          /\ pushed' = [e \in Envs |-> IF hasAction THEN pushed[e]
                                        ELSE Append(pushed[e], o[e])]
          /\ params' = r.params
          /\ optim' = r.optim
          /\ sched' = r.sched
          /\ p_ret' = [op |-> IF hasAction THEN "test" ELSE "test_raised",
                       dones |-> NoDones, before |-> obs_hist,
                       cond |-> p_ret.cond, calls |-> p_ret.calls + 1]
  /\ UNCHANGED << norm, cur_iter, use_ema, log_dir, ema, live, ckpt, pc, it, tot_iter, k,
                  ncalls, ret, nan_seen, io, steps, executed, env, loc_obs, goal, pin >>
  /\ UNCHANGED << emaDriverVars, samplerVars, dataVars, scheduleVars, guidanceVars, splitVars >>

\* reset() with no argument
PolicyResetAll ==
  /\ p_ret.calls < MaxPolicyCalls
  /\ obs_hist' = ResetAllHistory(obs_hist)
  /\ pushed' = [e \in Envs |-> << >>]
  /\ p_ret' = [op |-> "reset_all", dones |-> NoDones, before |-> obs_hist,
                    cond |-> p_ret.cond, calls |-> p_ret.calls + 1]
  /\ UNCHANGED << runnerVars, emaDriverVars, samplerVars, dataVars, scheduleVars, guidanceVars, splitVars >>

\* ------------------------------------------------------------ Normalizer
\* scale_input: observations min-max scaled from [1, MaxObs] to [-1, 1]
ScaleInput(v) == IF MaxObs = 1 THEN v - 1 ELSE (2 * (v - 1)) \div (MaxObs - 1) - 1

\* scale_pos: a position goal scaled like an observation
ScalePos(v) == ScaleInput(v)

\* output statistics per dimension, in the dataset's order [action, observation]
YMin(d) == IF d <= ActDim THEN 0 - 1 ELSE 1
YMax(d) == IF d <= ActDim THEN 1 ELSE MaxObs

\* clip: bound a normalized output value to the normalized range
NormClip(v) == IF v < 0 - 1 THEN 0 - 1 ELSE IF v > 1 THEN 1 ELSE v

\* inverse_scale_output: from [-1, 1] back to [y_min, y_max]
InverseScaleOutput(v, d) == ((v + 1) * (YMax(d) - YMin(d))) \div 2 + YMin(d)

\* ----------------------------------------- DiffusionPolicy.forward, sampler
InputDim == ObsDim + ActDim
InputLen(cfg) == IF cfg.inpaint_obs THEN THorizon + TCond - 1 ELSE THorizon
Entries(cfg) == (1 .. InputLen(cfg)) \X (1 .. InputDim)
CondEntries == (1 .. TCond) \X (1 .. ObsDim)

RECURSIVE Pow2(_)
Pow2(n) == IF n = 0 THEN 1 ELSE 2 * Pow2(n - 1)

\* get_sigmas_exponential: sampling_steps levels from sigma_max down to
\* sigma_min = 1 in geometric steps (ratio 2), then 0
Sigma(j) == IF j > SamplingSteps THEN 0 ELSE Pow2(SamplingSteps - j)
SigmaMax == Sigma(1)

\* the noise level of the discrete schedule at step j: timesteps K-1 down to 0
DdpmLevel(j) == SamplingSteps - j

\* the tensors a Gaussian draw of forward's working shape can be: zero, or
\* entries of one magnitude with alternating signs
NoiseTensors(cfg) ==
  { [e \in Entries(cfg) |-> 0] }
    \cup { [e \in Entries(cfg) |-> IF (e[1] + e[2]) % 2 = 0 THEN c ELSE 0 - c] :
             c \in ((0 - MaxNoise) .. MaxNoise) \ {0} }

\* what the denoiser network can answer on estimate xc: a constant tensor, a
\* tensor that tells observation from action entries, or its input unchanged
DenoiserOutputs(cfg, xc) ==
  { [e \in Entries(cfg) |-> c] : c \in 0 .. MaxDen }
    \cup { [e \in Entries(cfg) |-> IF e[2] <= ObsDim THEN MaxDen ELSE 0 - MaxDen] }
    \cup { xc }

\* the goal position [1, 0, 0, 0] of create_inpainting_data, per observation dimension
GoalPos(d) == IF d = 1 THEN 1 ELSE 0

\* inpainting data that pins the final observation only
CreateInpaintingDataNoHistory(cfg, d) ==
  LET L == InputLen(cfg)
      final(e) == cfg.inpaint_final_obs /\ e[1] = L /\ e[2] <= ObsDim
      finalVal(e) == IF d.input = None THEN ScalePos(GoalPos(e[2])) ELSE d.input[1][e]
  IN [tgt  |-> [e \in Entries(cfg) |-> IF final(e) THEN finalVal(e) ELSE 0],
      mask |-> [e \in Entries(cfg) |-> IF final(e) THEN 1 ELSE 0]]

\* create_inpainting_data: target and mask of the noise's shape
CreateInpaintingData(cfg, d) ==
  LET L == InputLen(cfg)
      hist(e) == cfg.inpaint_obs /\ e[1] <= TCond /\ e[2] <= ObsDim
      final(e) == cfg.inpaint_final_obs /\ e[1] = L /\ e[2] <= ObsDim
      finalVal(e) == IF d.input = None THEN ScalePos(GoalPos(e[2])) ELSE d.input[1][e]
  IN [tgt  |-> [e \in Entries(cfg) |->
                 IF final(e) THEN finalVal(e) ELSE IF hist(e) THEN d.obs[e] ELSE 0],
      mask |-> [e \in Entries(cfg) |-> IF final(e) \/ hist(e) THEN 1 ELSE 0]]

\* a step that passes the estimate on as the previous update left it
OverwriteSkipped(xc, tg, mk, eps, level) == xc

\* the inpainting correction before a denoiser call: masked entries become
\* target plus noise scaled to the current level
Overwrite(xc, tg, mk, eps, level) ==
  [e \in DOMAIN xc |-> IF mk[e] = 1 THEN tg[e] + eps[e] * level ELSE xc[e]]

\* the deterministic update from level sg to the next lower level sgn
EulerStep(xc, den, sg, sgn) ==
  [e \in DOMAIN xc |-> den[e] + (sgn * (xc[e] - den[e])) \div sg]

\* the ancestral update of the discrete sampler: the prediction plus noise of
\* the next level
AncestralStep(den, eps, leveln) ==
  [e \in DOMAIN den |-> den[e] + eps[e] * leveln]

\* noise re-injected to jump back from level sgn up to level sg
Renoise(xc, eps, sg, sgn) ==
  [e \in DOMAIN xc |-> xc[e] + eps[e] * (sg - sgn)]

\* the sampler's return without the last mask correction
FinalCorrectionMissing(xc, tg, mk) == xc

\* the last mask correction at zero noise: masked entries are the target
FinalCorrection(xc, tg, mk) ==
  [e \in DOMAIN xc |-> IF mk[e] = 1 THEN tg[e] ELSE xc[e]]

\* a sampler that never repeats a band
JumpsBackNever(cfg, j, r) == FALSE

\* whether the step at level j closes a resampling band that is to be repeated
JumpsBack(cfg, j, r) ==
  /\ cfg.sampler_type # "ddpm"
  /\ j % cfg.jump_length = 0
  /\ r + 1 < cfg.resampling_steps

\* the sampling configurations; the discrete sampler ignores the resampling
\* settings, which are left at 1 for it
Configs ==
  { c \in [sampler_type : {"ddpm", "ddim"}, inpaint_obs : BOOLEAN,
           inpaint_final_obs : BOOLEAN,
           resampling_steps : 1 .. MaxResample, jump_length : 1 .. MaxJump] :
      c.sampler_type = "ddpm" => (c.resampling_steps = 1 /\ c.jump_length = 1) }

\* the conditioning windows process can produce: a buffer holding one
\* observation value throughout (0: a cleared buffer), or one filling up
ObsWindows ==
  { [ce \in CondEntries |-> ScaleInput(v)] : v \in 0 .. MaxObs }
    \cup { [ce \in CondEntries |-> ScaleInput(IF ce[1] < TCond THEN 0 ELSE MaxObs)] }

\* the data dicts process hands to forward: inference (input None) or test
\* (input: the normalized window the prediction is scored against)
ForwardData(cfg) ==
  [obs : ObsWindows,
   input : {None} \cup { Some([e \in Entries(cfg) |-> IF e[2] <= ObsDim THEN 1 ELSE 0 - 1]) }]

Empty == << >>

SamplerIdle ==
  /\ s_pc = "idle"
  /\ fdata = Empty /\ x = Empty /\ tgt = Empty /\ mask = Empty
  /\ lvl = 0 /\ rep = 0 /\ ncalls_den = 0
  /\ fwd_out = None
  /\ den_in = None
  /\ act_out = None

InitSampler == fcfg \in Configs /\ SamplerIdle

SamplerUnused ==
  /\ fcfg = [sampler_type |-> "ddim", inpaint_obs |-> TRUE, inpaint_final_obs |-> FALSE,
             resampling_steps |-> 1, jump_length |-> 1]
  /\ SamplerIdle

\* forward, lines 93-117: draw the noise, build target and mask, scale the noise
\* for the continuous sampler, and enter the sampler
ForwardStart ==
  /\ s_pc = "idle"
  /\ \E d \in ForwardData(fcfg), noise \in NoiseTensors(fcfg) :
       LET tm == CreateInpaintingData(fcfg, d)
       IN /\ fdata' = d
          /\ tgt' = tm.tgt
          /\ mask' = tm.mask
          /\ x' = IF fcfg.sampler_type = "ddpm" THEN noise
                  ELSE [e \in Entries(fcfg) |-> noise[e] * SigmaMax]
  /\ s_pc' = "sampling"
  /\ lvl' = 1
  /\ rep' = 0
  /\ ncalls_den' = 0
  /\ fwd_out' = None
  /\ den_in' = None
  /\ act_out' = None
  /\ UNCHANGED fcfg
  /\ UNCHANGED << runnerVars, emaDriverVars, policyVars, dataVars, scheduleVars, guidanceVars, splitVars >>

\* one sampling step: inpainting correction, denoiser call, update to the next
\* level; at the end of a band that is to be repeated, noise is re-injected and
\* the sampler jumps back jump_length levels
SamplerStep ==
  /\ s_pc = "sampling"
  /\ lvl <= SamplingSteps
  /\ \E eps \in NoiseTensors(fcfg), eps2 \in NoiseTensors(fcfg) :
       LET ddpm == fcfg.sampler_type = "ddpm"
           xc == Overwrite(x, tgt, mask, eps, IF ddpm THEN DdpmLevel(lvl) ELSE Sigma(lvl))
       IN \E den \in DenoiserOutputs(fcfg, xc) :
            LET x1 == IF ddpm THEN AncestralStep(den, eps2, DdpmLevel(lvl))
                      ELSE EulerStep(xc, den, Sigma(lvl), Sigma(lvl + 1))
                back == JumpsBack(fcfg, lvl, rep)
                to == lvl + 1 - fcfg.jump_length
            IN /\ (ddpm \/ back \/ eps2 = eps)
               /\ den_in' = Some([x |-> xc, lvl |-> lvl, rep |-> rep])
               /\ x' = IF back THEN Renoise(x1, eps2, Sigma(to), Sigma(lvl + 1)) ELSE x1
               /\ lvl' = IF back THEN to ELSE lvl + 1
               /\ rep' = IF back THEN rep + 1
                         ELSE IF lvl % fcfg.jump_length = 0 THEN 0 ELSE rep
  /\ ncalls_den' = ncalls_den + 1
  /\ UNCHANGED << fcfg, s_pc, fdata, tgt, mask, fwd_out, act_out >>
  /\ UNCHANGED << runnerVars, emaDriverVars, policyVars, dataVars, scheduleVars, guidanceVars, splitVars >>

\* the sampler returns after the last level, with one last mask correction
SamplerReturn ==
  /\ s_pc = "sampling"
  /\ lvl = SamplingSteps + 1
  /\ x' = FinalCorrection(x, tgt, mask)
  /\ s_pc' = "sampled"
  /\ UNCHANGED << fcfg, fdata, tgt, mask, lvl, rep, ncalls_den, fwd_out, den_in, act_out >>
  /\ UNCHANGED << runnerVars, emaDriverVars, policyVars, dataVars, scheduleVars, guidanceVars, splitVars >>

\* an act that always reads the first trajectory step
ActIndexFirst(cfg) == 1

\* act, lines 128-131: the trajectory step the action is read at (T_cond - 1
\* or 0 in the code's counting from 0)
ActIndex(cfg) == IF cfg.inpaint_obs THEN TCond ELSE 1

\* act, lines 125-132: the observation part of the trajectory, and the action
\* part of the step at ActIndex
ActExtract(cfg, out) ==
  [action   |-> [d \in (ObsDim + 1) .. InputDim |-> out[<< ActIndex(cfg), d >>]],
   obs_traj |-> [e \in { f \in DOMAIN out : f[2] <= ObsDim } |-> out[e]]]

\* process, lines 190-194: the position in the data window of T_cond + T - 1
\* steps that trajectory step j was cut from
WindowPos(cfg, j) == IF cfg.inpaint_obs THEN j ELSE j + TCond - 1

\* forward, lines 118-120: clip, inverse_scale_output, return; for a call of
\* act, lines 125-132 follow
ForwardReturn ==
  /\ s_pc = "sampled"
  /\ LET out == [e \in DOMAIN x |-> InverseScaleOutput(NormClip(x[e]), e[2])]
     IN /\ fwd_out' = Some(out)
        /\ act_out' = IF fdata.input = None THEN Some(ActExtract(fcfg, out)) ELSE None
  /\ s_pc' = "idle"
  /\ fdata' = Empty /\ x' = Empty /\ tgt' = Empty /\ mask' = Empty
  /\ lvl' = 0 /\ rep' = 0 /\ ncalls_den' = 0
  /\ den_in' = None
  /\ UNCHANGED fcfg
  /\ UNCHANGED << runnerVars, emaDriverVars, policyVars, dataVars, scheduleVars, guidanceVars, splitVars >>

\* ---------------------------------------------------------- noise schedules
\* a noise level: zero, or a positive magnitude of a family, held as the
\* numerator num over the denominator den of the quantity the family orders its
\* levels by (the level's logarithm, the level itself, the timestep)
Level(fam, num, den) == [fam |-> fam, num |-> num, den |-> den]
ZeroLevel == Level("zero", 0, 1)

\* u is a higher noise level than v, both of one schedule: exp is increasing,
\* so exponential levels compare as their logarithms, and above zero
LevelAbove(u, v) ==
  IF u.fam = "zero" THEN FALSE
  ELSE IF v.fam = "zero" THEN u.fam # "linear" \/ u.num > 0
  ELSE u.num * v.den > v.num * u.den

\* torch.linspace(hi, lo, n): n evenly spaced values from hi down to lo, as
\* numerators over the denominator n - 1 (n = 1: the single value hi)
LinspaceDen(n) == IF n = 1 THEN 1 ELSE n - 1
Linspace(hi, lo, n) ==
  [i \in 1 .. n |-> hi * LinspaceDen(n) - (i - 1) * (hi - lo)]

\* the exponential schedule without the closing zero
GetSigmasExponentialOpen(n, lo, hi) ==
  [i \in 1 .. n |-> Level("exponential", Linspace(hi, lo, n)[i], LinspaceDen(n))]

\* get_sigmas_exponential(n, sigma_min, sigma_max): n levels evenly spaced in
\* the logarithm from sigma_max down to sigma_min, then zero; lo and hi are
\* the logarithms of sigma_min and sigma_max
GetSigmasExponential(n, lo, hi) ==
  Append([i \in 1 .. n |-> Level("exponential", Linspace(hi, lo, n)[i], LinspaceDen(n))],
         ZeroLevel)

\* get_sigmas_linear(n, sigma_min, sigma_max): n levels evenly spaced from
\* sigma_max down to sigma_min, then zero
GetSigmasLinear(n, lo, hi) ==
  Append([i \in 1 .. n |-> Level("linear", Linspace(hi, lo, n)[i], LinspaceDen(n))],
         ZeroLevel)

\* DDPMScheduler.set_timesteps(n) on n training timesteps: n - 1 down to 0
DdpmTimesteps(n) == [i \in 1 .. n |-> Level("ddpm", n - i, 1)]

\* the sequence forward hands to the sampler, lines 104-114
NoiseLevels(c) ==
  IF c.family = "ddpm" THEN DdpmTimesteps(c.n)
  ELSE IF c.family = "linear" THEN GetSigmasLinear(c.n, c.lo, c.hi)
  ELSE GetSigmasExponential(c.n, c.lo, c.hi)

\* the highest level of configuration c: sigma_max, or the last training timestep
TopLevel(c) ==
  IF c.family = "ddpm" THEN Level("ddpm", c.n - 1, 1)
  ELSE Level(c.family, c.hi * LinspaceDen(c.n), LinspaceDen(c.n))

\* the schedule configurations: sigma_min < sigma_max throughout
ScheduleConfigs ==
  { c \in [family : {"exponential"}, n : 1 .. MaxSchedSteps,
           lo : (0 - MaxLogSigma) .. MaxLogSigma, hi : (0 - MaxLogSigma) .. MaxLogSigma] :
      c.lo < c.hi }
    \cup { c \in [family : {"linear"}, n : 1 .. MaxSchedSteps,
                   lo : 1 .. MaxLinSigma, hi : 1 .. MaxLinSigma] : c.lo < c.hi }
    \cup [family : {"ddpm"}, n : 1 .. MaxSchedSteps, lo : {0}, hi : {0}]

InitSchedule == sch_in \in ScheduleConfigs /\ sigmas = None

ScheduleUnused ==
  /\ sch_in = [family |-> "ddpm", n |-> 1, lo |-> 0, hi |-> 0]
  /\ sigmas = None

\* __init__, lines 80-82, and forward, lines 104-114: build the sequence
BuildSchedule ==
  /\ sigmas = None
  /\ sigmas' = Some(NoiseLevels(sch_in))
  /\ UNCHANGED sch_in
  /\ UNCHANGED << runnerVars, emaDriverVars, policyVars, samplerVars, dataVars, guidanceVars, splitVars >>

\* ------------------------------------------------------------- CFGWrapper
\* the raw denoisers: the answer as a function of estimate, noise level and
\* conditioning; an unconditional call sees the conditioning zeroed
Denoisers == [a : 0 .. 1, b : 0 .. 1, c : 0 .. 1]
Denoise(m, xv, sg, cv) == m.a * xv + m.b * sg + m.c * cv * (xv + 1)
CondCall(m, xv, sg, cv) == Denoise(m, xv, sg, cv)
UncondCall(m, xv, sg, cv) == Denoise(m, xv, sg, 0)

\* guidance that extrapolates from the conditional prediction
CFGInferenceFromCond(m, w, xv, sg, cv) ==
  CondCall(m, xv, sg, cv) + w * (CondCall(m, xv, sg, cv) - UncondCall(m, xv, sg, cv))

\* CFGWrapper at inference: unconditional + guidance_weight * (conditional -
\* unconditional)
CFGInference(m, w, xv, sg, cv) ==
  UncondCall(m, xv, sg, cv) + w * (CondCall(m, xv, sg, cv) - UncondCall(m, xv, sg, cv))

GuidanceInputs ==
  [model : Denoisers, w : 0 .. MaxGuidance, x : 0 .. MaxGuideVal,
   sigma : 0 .. MaxGuideVal, cond : 0 .. MaxGuideVal]

InitGuidance == g_in \in GuidanceInputs /\ g_out = None

GuidanceUnused ==
  /\ g_in = [model |-> [a |-> 0, b |-> 0, c |-> 0], w |-> 0, x |-> 0, sigma |-> 0,
             cond |-> 0]
  /\ g_out = None

\* one inference call of the wrapped model
GuidedCall ==
  /\ g_out = None
  /\ g_out' = Some(CFGInference(g_in.model, g_in.w, g_in.x, g_in.sigma, g_in.cond))
  /\ UNCHANGED g_in
  /\ UNCHANGED << runnerVars, emaDriverVars, policyVars, samplerVars, dataVars, scheduleVars, splitVars >>

\* ----------------------------------------- ExpertDataset.__init__: episodes
\* the recorded observation and action of row b at step t (one value stands
\* for the feature vector)
RawObs(b, t) == 100 * b + t
RawAct(b, t) == 0 - (100 * b + t)

\* lines 54-55: the first step of every row is marked as an episode start
MarkStarts(fs) ==
  [b \in DOMAIN fs |-> [t \in DOMAIN fs[b] |-> IF t = 1 THEN 1 ELSE fs[b][t]]]

\* reshape(-1): the rows one after the other
Flatten(m) ==
  LET T == Len(m[1])
  IN [i \in 1 .. (Len(m) * T) |-> m[((i - 1) \div T) + 1][((i - 1) % T) + 1]]

\* lines 57-58: torch.where(first_steps_flat == 1)[0]: the positions of the
\* flags, counted from 0, ascending
RECURSIVE SplitIndicesFrom(_, _)
SplitIndicesFrom(flat, i) ==
  IF i > Len(flat) THEN << >>
  ELSE (IF flat[i] = 1 THEN << i - 1 >> ELSE << >>) \o SplitIndicesFrom(flat, i + 1)
SplitIndices(flat) == SplitIndicesFrom(flat, 1)

\* torch.tensor_split(x, indices): the pieces x[:i1], x[i1:i2], ..., x[ik:]
TensorSplit(xs, idx) ==
  [j \in 1 .. (Len(idx) + 1) |->
     SubSeq(xs, (IF j = 1 THEN 0 ELSE idx[j - 1]) + 1,
                IF j = Len(idx) + 1 THEN Len(xs) ELSE idx[j])]

\* split_eps that keeps every piece of the split
SplitEpsKeepFirst(xs, idx) == TensorSplit(xs, idx)

\* split_eps, lines 98-101: split at the flags and drop the first, empty piece
SplitEps(xs, idx) == Tail(TensorSplit(xs, idx))

\* the recordings: every row has the same number of steps
RawFirstSteps ==
  UNION { [1 .. b -> [1 .. t -> {0, 1}]] : b \in 1 .. MaxRows, t \in 1 .. MaxRowLen }

RawFlat(fs, F(_, _)) == Flatten([b \in DOMAIN fs |-> [t \in DOMAIN fs[b] |-> F(b, t)]])

InitSplit == first_steps \in RawFirstSteps /\ ep_splits = None

SplitUnused == first_steps = << << 1 >> >> /\ ep_splits = None

\* __init__, lines 54-61: mark the row starts, find the flags, split the
\* observations and the actions at them
SplitEpisodes ==
  /\ ep_splits = None
  /\ LET idx == SplitIndices(Flatten(MarkStarts(first_steps)))
     IN ep_splits' = Some([obs    |-> SplitEps(RawFlat(first_steps, RawObs), idx),
                           action |-> SplitEps(RawFlat(first_steps, RawAct), idx)])
  /\ UNCHANGED first_steps
  /\ UNCHANGED << runnerVars, emaDriverVars, policyVars, samplerVars, dataVars, scheduleVars,
                  guidanceVars >>

\* ------------------------------------------- ExpertDataset, SlicerWrapper
\* the raw steps of episode ep: observation and action values that tell the
\* episode and the step (never 0, the padding value)
ObsAt(ep, t) == 100 * ep + t
ActAt(ep, t) == 0 - (100 * ep + t)
ObsSplits(lens) == [ep \in 1 .. Len(lens) |-> [t \in 1 .. lens[ep] |-> ObsAt(ep, t)]]
ActionSplits(lens) == [ep \in 1 .. Len(lens) |-> [t \in 1 .. lens[ep] |-> ActAt(ep, t)]]

Max0(n) == IF n < 0 THEN 0 ELSE n

\* max(split.shape[0] for split in obs_splits)
MaxLen(splits) ==
  CHOOSE m \in { Len(splits[ep]) : ep \in DOMAIN splits } :
    \A ep \in DOMAIN splits : Len(splits[ep]) <= m

Fill(n, v) == [t \in 1 .. n |-> v]

\* add_padding (temporal): zeros up to max_len behind every episode, then
\* T_cond - 1 zeros in front
AddPadding(splits, max_len, tcond) ==
  [ep \in DOMAIN splits |->
     Fill(tcond - 1, 0) \o splits[ep] \o Fill(max_len - Len(splits[ep]), 0)]

\* create_masks with the leading ones of the initial padding left out
CreateMasksNoPrefix(splits, max_len, tcond) ==
  [ep \in DOMAIN splits |->
     Fill(Len(splits[ep]), 1) \o Fill(max_len - Len(splits[ep]), 0)]

\* create_masks with the initial padding marked as padding (zeros in front)
CreateMasksZeroPrefix(splits, max_len, tcond) ==
  [ep \in DOMAIN splits |->
     Fill(tcond - 1, 0) \o Fill(Len(splits[ep]), 1) \o Fill(max_len - Len(splits[ep]), 0)]

\* create_masks: ones over the episode, zeros over its padding, then
\* T_cond - 1 ones in front
CreateMasks(splits, max_len, tcond) ==
  [ep \in DOMAIN splits |->
     Fill(tcond - 1, 1) \o Fill(Len(splits[ep]), 1) \o Fill(max_len - Len(splits[ep]), 0)]

\* ExpertDataset.__init__, lines 77-83
BuildData(lens, tcond) ==
  LET obs == ObsSplits(lens)
      act == ActionSplits(lens)
      max_len == MaxLen(obs)
  IN [obs |-> AddPadding(obs, max_len, tcond),
      action |-> AddPadding(act, max_len, tcond),
      mask |-> CreateMasks(obs, max_len, tcond)]

RECURSIVE SumSeq(_)
SumSeq(q) == IF q = << >> THEN 0 ELSE q[1] + SumSeq(Tail(q))

\* __getitem__ that returns the whole padded row
DatasetGetItemWholeRow(dat, idx) == [obs |-> dat.obs[idx], action |-> dat.action[idx]]

\* ExpertDataset.__getitem__: obs and action of the episode, cut at the
\* number of valid steps
DatasetGetItem(dat, idx) ==
  LET n == SumSeq(dat.mask[idx])
  IN [obs |-> SubSeq(dat.obs[idx], 1, n), action |-> SubSeq(dat.action[idx], 1, n)]

\* a partition read by position in the whole dataset, not through its indices
SubsetGetItemDirect(dat, idxs, i) == DatasetGetItem(dat, i + 1)

\* Subset.__getitem__: position i (from 0) of the partition
SubsetGetItem(dat, idxs, i) == DatasetGetItem(dat, idxs[i + 1])

\* the windows of one episode with the last start index left out
SlicesOfEpisodeOffByOne(i, length, window) ==
  IF length >= window
  THEN [j \in 1 .. (length - window) |-> << i, j - 1, j - 1 + window >>]
  ELSE << >>

\* _create_slices, lines 169-173: the windows (i, start, start + window) of
\* the episode at position i, whose item has the given length
SlicesOfEpisode(i, length, window) ==
  IF length >= window
  THEN [j \in 1 .. (length - window + 1) |-> << i, j - 1, j - 1 + window >>]
  ELSE << >>

RECURSIVE CreateSlicesFrom(_, _, _, _)
CreateSlicesFrom(dat, idxs, window, i) ==
  IF i >= Len(idxs) THEN << >>
  ELSE SlicesOfEpisode(i, Len(SubsetGetItem(dat, idxs, i).obs), window)
         \o CreateSlicesFrom(dat, idxs, window, i + 1)

\* _create_slices with the window counted without the conditioning steps
CreateSlicesHorizonOnly(dat, idxs, tcond, thor) == CreateSlicesFrom(dat, idxs, thor, 0)

\* SlicerWrapper._create_slices over the whole partition
CreateSlices(dat, idxs, tcond, thor) == CreateSlicesFrom(dat, idxs, tcond + thor - 1, 0)

\* SlicerWrapper.__getitem__: v[start:end] of every tensor of the episode
SlicerGetItem(dat, idxs, slices, idx) ==
  LET sl == slices[idx]
      ep == SubsetGetItem(dat, idxs, sl[1])
  IN [obs |-> SubSeq(ep.obs, sl[2] + 1, sl[3]), action |-> SubSeq(ep.action, sl[2] + 1, sl[3])]

\* process (training branch): the steps of a window that enter the input the
\* loss is taken over: the whole window when inpaint_obs, else its last T steps
ProcessInputSteps(inpaint, tcond, thor) ==
  IF inpaint THEN 1 .. (tcond + thor - 1) ELSE tcond .. (tcond + thor - 1)

\* random_split: the partition sizes for the fractions, the remainder handed
\* out one by one from the first partition on
SplitLens(n) ==
  LET a == (n * TrainNum) \div TrainDen
      b == (n * (TrainDen - TrainNum)) \div TrainDen
      r == n - a - b
  IN << a + (IF r >= 1 THEN 1 ELSE 0), b + (IF r >= 2 THEN 1 ELSE 0) >>

Perms(n) == { q \in [1 .. n -> 1 .. n] : \A i, j \in 1 .. n : q[i] = q[j] => i = j }

\* the two episodes of lengths 50 and 30 windowed with T_cond = 4 and T = 8
Scenario == [lens |-> << 50, 30 >>, T_cond |-> 4, T |-> 8]

EpisodeLens == UNION { [1 .. n -> 1 .. MaxEpLen] : n \in 1 .. MaxEpisodes }

DataConfigs ==
  [lens : EpisodeLens, T_cond : 1 .. MaxTCond, T : 1 .. MaxT] \cup { Scenario }

DataRaw ==
  /\ d_pc = "raw"
  /\ data = None
  /\ train_idx = << >> /\ val_idx = << >>
  /\ train_slices = << >> /\ val_slices = << >>
  /\ item = None
  /\ item_from = "none"
  /\ item_slice = << >>

InitData == dcfg \in DataConfigs /\ DataRaw

DataUnused == dcfg = [lens |-> << 1 >>, T_cond |-> 1, T |-> 1] /\ DataRaw

\* get_dataloaders, lines 198-201: build the dataset, split its episodes at
\* random, window each partition
GetDataloaders ==
  /\ d_pc = "raw"
  /\ LET dat == BuildData(dcfg.lens, dcfg.T_cond)
         n == Len(dcfg.lens)
         sizes == SplitLens(n)
     IN \E q \in Perms(n) :
          LET tr == SubSeq(q, 1, sizes[1])
              va == SubSeq(q, sizes[1] + 1, sizes[1] + sizes[2])
          IN /\ data' = Some(dat)
             /\ train_idx' = tr
             /\ val_idx' = va
             /\ train_slices' = CreateSlices(dat, tr, dcfg.T_cond, dcfg.T)
             /\ val_slices' = CreateSlices(dat, va, dcfg.T_cond, dcfg.T)
  /\ d_pc' = "ready"
  /\ UNCHANGED << dcfg, item, item_from, item_slice >>
  /\ UNCHANGED << runnerVars, emaDriverVars, policyVars, samplerVars, scheduleVars, guidanceVars, splitVars >>

\* train_set[idx]
TrainGetItem ==
  /\ d_pc = "ready"
  /\ \E idx \in 1 .. Len(train_slices) :
       /\ item' = Some(SlicerGetItem(data[1], train_idx, train_slices, idx))
       /\ item_slice' = train_slices[idx]
  /\ item_from' = "train"
  /\ UNCHANGED << dcfg, d_pc, data, train_idx, val_idx, train_slices, val_slices >>
  /\ UNCHANGED << runnerVars, emaDriverVars, policyVars, samplerVars, scheduleVars, guidanceVars, splitVars >>

\* test_set[idx]
ValGetItem ==
  /\ d_pc = "ready"
  /\ \E idx \in 1 .. Len(val_slices) :
       /\ item' = Some(SlicerGetItem(data[1], val_idx, val_slices, idx))
       /\ item_slice' = val_slices[idx]
  /\ item_from' = "val"
  /\ UNCHANGED << dcfg, d_pc, data, train_idx, val_idx, train_slices, val_slices >>
  /\ UNCHANGED << runnerVars, emaDriverVars, policyVars, samplerVars, scheduleVars, guidanceVars, splitVars >>

\* ------------------------------------------------------- DiffusionRunner
\* save with the restore after the checkpoint write left out
SaveOutcomeNoRestore(p, e, o, n, i, useEma, ok) ==
  LET e1 == IF useEma THEN EmaStore(e, p) ELSE e
      p1 == IF useEma THEN EmaCopyTo(e1, p) ELSE p
  IN [ema |-> e1, params |-> p1,
      live |-> IF useEma THEN "ema" ELSE "train",
      written |-> [model |-> p1, optim |-> o, norm |-> n, iter |-> i, fail |-> "none"],
      exc |-> ~ok]

\* save that writes the checkpoint before the shadow values are copied in
SaveOutcomeWritesLive(p, e, o, n, i, useEma, ok) ==
  LET e1 == IF useEma THEN EmaStore(e, p) ELSE e
      p1 == IF useEma THEN EmaCopyTo(e1, p) ELSE p
      restored == ok /\ useEma
  IN [ema |-> e1,
      params |-> IF restored THEN EmaRestore(e1, p1) ELSE p1,
      live |-> IF useEma /\ ~ok THEN "ema" ELSE "train",
      written |-> [model |-> p, optim |-> o, norm |-> n, iter |-> i, fail |-> "none"],
      exc |-> ~ok]

\* save with store and copy_to in the wrong order: the snapshot is taken of the
\* substituted parameters
SaveOutcomeStoreAfterCopy(p, e, o, n, i, useEma, ok) ==
  LET p1 == IF useEma THEN EmaCopyTo(e, p) ELSE p
      e1 == IF useEma THEN EmaStore(e, p1) ELSE e
      restored == ok /\ useEma
  IN [ema |-> e1,
      params |-> IF restored THEN EmaRestore(e1, p1) ELSE p1,
      live |-> IF useEma /\ ~ok THEN "ema" ELSE "train",
      written |-> [model |-> p1, optim |-> o, norm |-> n, iter |-> i, fail |-> "none"],
      exc |-> ~ok]

\* DiffusionRunner.save: store and copy_to when use_ema, the checkpoint write
\* (ok is whether torch.save returns; it raises otherwise), then restore
SaveOutcome(p, e, o, n, i, useEma, ok) ==
  LET e1 == IF useEma THEN EmaStore(e, p) ELSE e
      p1 == IF useEma THEN EmaCopyTo(e1, p) ELSE p
      restored == ok /\ useEma
  IN [ema |-> e1,
      params |-> IF restored THEN EmaRestore(e1, p1) ELSE p1,
      live |-> IF useEma /\ ~ok THEN "ema" ELSE "train",
      written |-> [model |-> p1, optim |-> o, norm |-> n, iter |-> i, fail |-> "none"],
      exc |-> ~ok]

\* the runner's state as a save that returns finds it
AtSave(p, e, o, n, i) ==
  Some([params |-> p, shadow |-> e.shadow, optim |-> o, norm |-> n, iter |-> i])

\* what can be wrong with a checkpoint file handed to load: the part that
\* fails to load ("file": torch.load itself fails)
FailKinds == {"none", "file", "model", "norm", "optim", "iter"}

\* checkpoints written by something else than this runner's save
ForeignCkpts ==
  { [model |-> MaxParam, optim |-> 0, norm |-> 1, iter |-> 1, fail |-> f] : f \in FailKinds }

\* DiffusionRunner.load: the four assignments in the code's order; the first
\* part that fails raises and leaves the later ones undone
LoadOutcome(p, o, n, i, ck) ==
  LET f == ck.fail
      gotModel == f \notin {"file", "model"}
      gotNorm  == gotModel /\ f # "norm"
      gotOptim == gotNorm /\ f # "optim"
      gotIter  == gotOptim /\ f # "iter"
  IN [params |-> IF gotModel THEN ck.model ELSE p,
      norm   |-> IF gotNorm THEN ck.norm ELSE n,
      optim  |-> IF gotOptim THEN ck.optim ELSE o,
      iter   |-> IF gotIter THEN ck.iter ELSE i,
      exc    |-> f # "none"]

\* DiffusionPolicy.update: lossNan is whether the loss is NaN or infinite;
\* newp is the parameter value a finite gradient step arrives at
UpdateOutcome(p, o, s, lossNan, newp) ==
  [params |-> IF lossNan \/ p = NaN THEN NaN ELSE newp,
   optim |-> o + 1,
   sched |-> s + 1,
   nan |-> lossNan \/ p = NaN]

Ret(op, exc) == [op |-> op, exc |-> exc]

\* the counts of a learn call that has trained nothing yet
NoSteps == [optimizer |-> 0, scheduler |-> 0, ema |-> 0, order |-> << >>]

\* an iteration that leaves the EMA tracker alone
TrainStepsNoEma(c) ==
  [optimizer |-> c.optimizer + 1, scheduler |-> c.scheduler + 1, ema |-> c.ema,
   order |-> << "optimizer", "scheduler" >>]

\* the training part of an iteration: update steps the optimizer, then the
\* scheduler (policy.py 158-159); learn then updates the EMA tracker (runner.py 142)
TrainSteps(c) ==
  [optimizer |-> c.optimizer + 1, scheduler |-> c.scheduler + 1, ema |-> c.ema + 1,
   order |-> << "optimizer", "scheduler", "ema" >>]

\* the goals a reset of the environment can draw, per observation dimension
EnvGoals == { [d \in 1 .. ObsDim |-> v] : v \in ObsVals }

\* set_goal: the policy keeps the goal it is handed
SetGoal(old, g) == Some(g)

\* the final-step observation target act builds when the goal it was handed
\* is g: create_inpainting_data, lines 216-220, takes the fixed position instead
FinalPin(g) == [d \in 1 .. ObsDim |-> ScalePos(GoalPos(d))]

InitRunner ==
  /\ params \in ParamVals
  /\ optim = 0
  /\ sched = 0
  /\ norm = 0
  /\ cur_iter = 0
  /\ use_ema \in BOOLEAN
  /\ log_dir \in BOOLEAN
  /\ ema = EmaInit(params)
  /\ live = "train"
  /\ ckpt = None
  /\ pc = "idle"
  /\ it = 0
  /\ tot_iter = 0
  /\ k = 0
  /\ ncalls = 0
  /\ ret = Ret("init", FALSE)
  /\ nan_seen = FALSE
  /\ io = [saved |-> None, loaded |-> "none", done |-> << >>]
  /\ steps = NoSteps
  /\ executed = << >>
  /\ env = [epoch |-> 0, obs |-> 1, goal |-> [d \in 1 .. ObsDim |-> 1]]
  /\ loc_obs = [val |-> 1, epoch |-> 0]
  /\ goal = None
  /\ pin = None

\* a runner constructed and left alone
RunnerUnused == InitRunner /\ params = 0 /\ ~use_ema /\ ~log_dir

\* positions of learn at which the live parameters sit inside an InferenceContext
InsideInference == {"sim", "evalrun"}

\* learn, lines 70-88: clear the history buffer and set up the loop from
\* current_learning_iteration
LearnStart ==
  /\ pc = "idle"
  /\ ncalls < MaxCalls
  /\ it' = cur_iter
  /\ tot_iter' = cur_iter + NumIters
  /\ pc' = "loop"
  /\ k' = 0
  /\ ncalls' = ncalls + 1
  /\ nan_seen' = FALSE
  /\ ret' = Ret("learn", FALSE)
  /\ obs_hist' = ResetAllHistory(obs_hist)
  /\ pushed' = [e \in Envs |-> << >>]
  /\ UNCHANGED << params, optim, sched, norm, cur_iter, use_ema, log_dir, ema, live, ckpt >>
  /\ UNCHANGED << p_ret, emaDriverVars, samplerVars, dataVars, scheduleVars, guidanceVars, splitVars >>
  /\ steps' = NoSteps
  /\ loc_obs' = [val |-> env.obs, epoch |-> env.epoch]
  /\ UNCHANGED << io, executed, env, goal, pin >>

\* learn, lines 92-96: a simulation iteration resets the environment and
\* enters the InferenceContext of the rollout
SimEnter ==
  /\ pc = "loop" /\ it < tot_iter /\ it % SimInterval = 0
  /\ LET r == EnterInference(ema, params, use_ema)
     IN /\ ema' = r.ema
        /\ params' = r.params
        /\ live' = r.live
  /\ pc' = "sim"
  /\ k' = 0
  /\ ret' = Ret("sim_enter", FALSE)
  /\ UNCHANGED << optim, sched, norm, cur_iter, use_ema, log_dir, ckpt, it, tot_iter,
                  ncalls, nan_seen >>
  /\ UNCHANGED notRunnerVars
  /\ \E o \in ObsVals, g \in EnvGoals :
       /\ env' = [epoch |-> env.epoch + 1, obs |-> o, goal |-> g]
       /\ goal' = SetGoal(goal, g)
  /\ UNCHANGED << io, steps, executed, loc_obs, pin >>

\* learn, line 92: no simulation in this iteration
SimSkip ==
  /\ pc = "loop" /\ it < tot_iter /\ it % SimInterval # 0
  /\ pc' = "eval"
  /\ ret' = Ret("sim_skip", FALSE)
  /\ UNCHANGED << params, optim, sched, norm, cur_iter, use_ema, log_dir, ema, live, ckpt,
                  it, tot_iter, k, ncalls, nan_seen >>
  /\ UNCHANGED notRunnerVars
  /\ UNCHANGED << io, steps, executed, env, loc_obs, goal, pin >>

\* learn, lines 97-124: one step of the rollout: act takes the observation
\* into the history buffer, env.step answers with the done flags, reset(dones)
SimStep ==
  /\ pc = "sim" /\ k < NumStepsPerEnv
  /\ k' = k + 1
  /\ \E o \in ObsVals, dones \in EnvDones :
       LET given == [e \in Envs |-> loc_obs.val]
       IN /\ obs_hist' = ResetHistory(UpdateHistory(obs_hist, given), dones)
          /\ pushed' = [e \in Envs |-> IF dones[e] # 0 THEN << >>
                                        ELSE Append(pushed[e], given[e])]
          /\ pin' = Some(FinalPin(goal))
          /\ env' = [env EXCEPT !.obs = o]
          /\ loc_obs' = [val |-> o, epoch |-> env.epoch]
  /\ ret' = Ret("sim_step", FALSE)
  /\ UNCHANGED << params, optim, sched, norm, cur_iter, use_ema, log_dir, ema, live, ckpt,
                  pc, it, tot_iter, ncalls, nan_seen >>
  /\ UNCHANGED << p_ret, emaDriverVars, samplerVars, dataVars, scheduleVars, guidanceVars, splitVars >>
  /\ UNCHANGED << io, steps, executed, goal >>

\* learn, lines 96-108: act or env.step raises inside the rollout block; the
\* InferenceContext exits and the exception leaves learn
SimRaise ==
  /\ pc = "sim" /\ k < NumStepsPerEnv
  /\ LET r == ExitInference(ema, params, use_ema)
     IN /\ ema' = r.ema
        /\ params' = r.params
        /\ live' = r.live
  /\ pc' = "raised"
  /\ ret' = Ret("sim_step", TRUE)
  /\ UNCHANGED << optim, sched, norm, cur_iter, use_ema, log_dir, ckpt, it, tot_iter, k,
                  ncalls, nan_seen >>
  /\ UNCHANGED notRunnerVars
  /\ UNCHANGED << io, steps, executed, env, loc_obs, goal, pin >>

\* learn, line 96: the rollout block ends and the InferenceContext exits
SimExit ==
  /\ pc = "sim" /\ k = NumStepsPerEnv
  /\ LET r == ExitInference(ema, params, use_ema)
     IN /\ ema' = r.ema
        /\ params' = r.params
        /\ live' = r.live
  /\ pc' = "eval"
  /\ ret' = Ret("sim_exit", FALSE)
  /\ UNCHANGED << optim, sched, norm, cur_iter, use_ema, log_dir, ckpt, it, tot_iter, k,
                  ncalls, nan_seen >>
  /\ UNCHANGED notRunnerVars
  /\ UNCHANGED << io, steps, executed, env, loc_obs, goal, pin >>

\* learn, lines 127-128: an evaluation iteration enters its InferenceContext
EvalEnter ==
  /\ pc = "eval" /\ it % EvalInterval = 0
  /\ LET r == EnterInference(ema, params, use_ema)
     IN /\ ema' = r.ema
        /\ params' = r.params
        /\ live' = r.live
  /\ pc' = "evalrun"
  /\ k' = 0
  /\ ret' = Ret("eval_enter", FALSE)
  /\ UNCHANGED << optim, sched, norm, cur_iter, use_ema, log_dir, ckpt, it, tot_iter,
                  ncalls, nan_seen >>
  /\ UNCHANGED notRunnerVars
  /\ UNCHANGED << io, steps, executed, env, loc_obs, goal, pin >>

\* learn, line 127: no evaluation in this iteration
EvalSkip ==
  /\ pc = "eval" /\ it % EvalInterval # 0
  /\ pc' = "train"
  /\ ret' = Ret("eval_skip", FALSE)
  /\ UNCHANGED << params, optim, sched, norm, cur_iter, use_ema, log_dir, ema, live, ckpt,
                  it, tot_iter, k, ncalls, nan_seen >>
  /\ UNCHANGED notRunnerVars
  /\ UNCHANGED << io, steps, executed, env, loc_obs, goal, pin >>

\* learn, lines 130-131: policy.test on one batch of the test loader
EvalStep ==
  /\ pc = "evalrun" /\ k < NumTestBatches
  /\ k' = k + 1
  /\ LET r == TestOutcome(params, optim, sched)
     IN /\ params' = r.params
        /\ optim' = r.optim
        /\ sched' = r.sched
  /\ \E o \in EnvObservations : obs_hist' = ProcessHistory(obs_hist, TRUE, o)
  /\ ret' = Ret("eval_step", FALSE)
  /\ UNCHANGED << norm, cur_iter, use_ema, log_dir, ema, live, ckpt,
                  pc, it, tot_iter, ncalls, nan_seen >>
  /\ UNCHANGED << p_ret, pushed, emaDriverVars, samplerVars, dataVars, scheduleVars, guidanceVars, splitVars >>
  /\ UNCHANGED << io, steps, executed, env, loc_obs, goal, pin >>

\* learn, lines 128-132: policy.test raises inside the evaluation block
EvalRaise ==
  /\ pc = "evalrun" /\ k < NumTestBatches
  /\ LET r == ExitInference(ema, params, use_ema)
     IN /\ ema' = r.ema
        /\ params' = r.params
        /\ live' = r.live
  /\ pc' = "raised"
  /\ ret' = Ret("eval_step", TRUE)
  /\ UNCHANGED << optim, sched, norm, cur_iter, use_ema, log_dir, ckpt, it, tot_iter, k,
                  ncalls, nan_seen >>
  /\ UNCHANGED notRunnerVars
  /\ UNCHANGED << io, steps, executed, env, loc_obs, goal, pin >>

\* learn, line 128: the evaluation block ends and the InferenceContext exits
EvalExit ==
  /\ pc = "evalrun" /\ k = NumTestBatches
  /\ LET r == ExitInference(ema, params, use_ema)
     IN /\ ema' = r.ema
        /\ params' = r.params
        /\ live' = r.live
  /\ pc' = "train"
  /\ ret' = Ret("eval_exit", FALSE)
  /\ UNCHANGED << optim, sched, norm, cur_iter, use_ema, log_dir, ckpt, it, tot_iter, k,
                  ncalls, nan_seen >>
  /\ UNCHANGED notRunnerVars
  /\ UNCHANGED << io, steps, executed, env, loc_obs, goal, pin >>

\* learn, lines 134-142: policy.update on the next batch, then ema_helper.update
Train ==
  /\ pc = "train"
  /\ \E lossNan \in BOOLEAN, newp \in ParamVals :
       LET u == UpdateOutcome(params, optim, sched, lossNan, newp)
       IN /\ params' = u.params
          /\ optim' = u.optim
          /\ sched' = u.sched
          /\ ema' = EmaUpdate(ema, u.params)
          /\ nan_seen' = (nan_seen \/ u.nan)
  /\ pc' = "log"
  /\ ret' = Ret("train", FALSE)
  /\ UNCHANGED << norm, cur_iter, use_ema, log_dir, live, ckpt, it, tot_iter, k, ncalls >>
  /\ UNCHANGED notRunnerVars
  /\ steps' = TrainSteps(steps)
  /\ executed' = Append(executed, it)
  /\ UNCHANGED << io, env, loc_obs, goal, pin >>

\* learn, lines 152-153: whether this iteration writes a checkpoint
SavesInLoop(i) == log_dir /\ i % LogInterval = 0 /\ i % SimInterval = 0

\* learn, lines 144-153: record the iteration, log, and save on a simulation
\* iteration; then the loop advances
Log ==
  /\ pc = "log"
  /\ cur_iter' = it
  /\ IF SavesInLoop(it)
     THEN \E ok \in BOOLEAN :
            LET r == SaveOutcome(params, ema, optim, norm, it, use_ema, ok)
            IN /\ ema' = r.ema
               /\ params' = r.params
               /\ live' = r.live
               /\ ckpt' = IF ok THEN Some(r.written) ELSE ckpt
               /\ pc' = IF ok THEN "loop" ELSE "raised"
               /\ it' = IF ok THEN it + 1 ELSE it
               /\ ret' = Ret("save", ~ok)
               /\ io' = IF ok THEN [io EXCEPT !.saved = AtSave(params, ema, optim, norm, it),
                                         !.done = executed]
                         ELSE io
     ELSE /\ pc' = "loop"
          /\ it' = it + 1
          /\ ret' = Ret("log", FALSE)
          /\ UNCHANGED << ema, params, live, ckpt, io >>
  /\ UNCHANGED << optim, sched, norm, use_ema, log_dir, tot_iter, k, ncalls, nan_seen >>
  /\ UNCHANGED << steps, executed, env, loc_obs, goal, pin >>
  /\ UNCHANGED notRunnerVars

\* learn, lines 88 and 155-156: the loop is over; save when logging, return
LearnFinish ==
  /\ pc = "loop" /\ it >= tot_iter
  /\ IF log_dir
     THEN \E ok \in BOOLEAN :
            LET r == SaveOutcome(params, ema, optim, norm, cur_iter, use_ema, ok)
            IN /\ ema' = r.ema
               /\ params' = r.params
               /\ live' = r.live
               /\ ckpt' = IF ok THEN Some(r.written) ELSE ckpt
               /\ pc' = IF ok THEN "idle" ELSE "raised"
               /\ ret' = Ret("save", ~ok)
               /\ io' = IF ok
                         THEN [io EXCEPT !.saved = AtSave(params, ema, optim, norm, cur_iter),
                               !.done = executed]
                         ELSE io
     ELSE /\ pc' = "idle"
          /\ ret' = Ret("learn_return", FALSE)
          /\ UNCHANGED << ema, params, live, ckpt, io >>
  /\ UNCHANGED << optim, sched, norm, cur_iter, use_ema, log_dir, it, tot_iter, k, ncalls,
                  nan_seen >>
  /\ UNCHANGED << steps, executed, env, loc_obs, goal, pin >>
  /\ UNCHANGED notRunnerVars

\* DiffusionRunner.save called by the user of the runner
Save ==
  /\ pc = "idle"
  /\ ncalls < MaxCalls
  /\ \E ok \in BOOLEAN :
       LET r == SaveOutcome(params, ema, optim, norm, cur_iter, use_ema, ok)
       IN /\ ema' = r.ema
          /\ params' = r.params
          /\ live' = r.live
          /\ ckpt' = IF ok THEN Some(r.written) ELSE ckpt
          /\ pc' = IF ok THEN "idle" ELSE "raised"
          /\ ret' = Ret("save", ~ok)
          /\ io' = IF ok
                    THEN [io EXCEPT !.saved = AtSave(params, ema, optim, norm, cur_iter),
                               !.done = executed]
                    ELSE io
  /\ ncalls' = ncalls + 1
  /\ UNCHANGED << optim, sched, norm, cur_iter, use_ema, log_dir, it, tot_iter, k, nan_seen >>
  /\ UNCHANGED << steps, executed, env, loc_obs, goal, pin >>
  /\ UNCHANGED notRunnerVars

\* the files load can be pointed at: the runner's own checkpoint, or a foreign one
LoadableCkpts == (IF ckpt = None THEN {} ELSE {ckpt[1]}) \cup ForeignCkpts

\* DiffusionRunner.load called by the user of the runner
Load ==
  /\ pc = "idle"
  /\ ncalls < MaxCalls
  /\ \E ck \in LoadableCkpts :
       LET r == LoadOutcome(params, optim, norm, cur_iter, ck)
       IN /\ params' = r.params
          /\ optim' = r.optim
          /\ norm' = r.norm
          /\ cur_iter' = r.iter
          /\ pc' = IF r.exc THEN "raised" ELSE "idle"
          /\ ret' = Ret("load", r.exc)
          /\ io' = [io EXCEPT !.loaded = IF ckpt # None /\ ck = ckpt[1] THEN "own"
                                         ELSE "foreign"]
  /\ ncalls' = ncalls + 1
  /\ UNCHANGED << sched, use_ema, log_dir, ema, live, ckpt, it, tot_iter, k, nan_seen >>
  /\ UNCHANGED << steps, executed, env, loc_obs, goal, pin >>
  /\ UNCHANGED notRunnerVars

\* the other parts, constructed and left alone
EmaDriverUnused == ema_calls = << >>

Init == InitRunner /\ EmaDriverUnused /\ PolicyUnused /\ SamplerUnused /\ DataUnused /\ ScheduleUnused /\ GuidanceUnused
  /\ SplitUnused

Next ==
  \/ LearnStart
  \/ SimEnter
  \/ SimSkip
  \/ SimStep
  \/ SimRaise
  \/ SimExit
  \/ EvalEnter
  \/ EvalSkip
  \/ EvalStep
  \/ EvalRaise
  \/ EvalExit
  \/ Train
  \/ Log
  \/ LearnFinish
  \/ Save
  \/ Load

Spec == Init /\ [][Next]_vars

\* ------------------------------------------- the EMA tracker, called directly
Range(f) == { f[i] : i \in DOMAIN f }

EmaDriverReady == pc = "idle" /\ Len(ema_calls) < MaxEmaCalls

\* an optimizer step between tracker calls moves the live parameters
DriverOptimizerStep ==
  /\ EmaDriverReady
  /\ \E newp \in ParamVals : params' = newp
  /\ ema_calls' = Append(ema_calls, "step")
  /\ ret' = Ret("step", FALSE)
  /\ UNCHANGED << optim, sched, norm, cur_iter, use_ema, log_dir, ema, live, ckpt, pc, it,
                  tot_iter, k, ncalls, nan_seen >>
  /\ UNCHANGED << policyVars, samplerVars, dataVars, scheduleVars, guidanceVars, splitVars >>
  /\ UNCHANGED << io, steps, executed, env, loc_obs, goal, pin >>

DriverUpdate ==
  /\ EmaDriverReady
  /\ ema' = EmaUpdate(ema, params)
  /\ ema_calls' = Append(ema_calls, "update")
  /\ ret' = Ret("update", FALSE)
  /\ UNCHANGED << params, optim, sched, norm, cur_iter, use_ema, log_dir, live, ckpt, pc, it,
                  tot_iter, k, ncalls, nan_seen >>
  /\ UNCHANGED << policyVars, samplerVars, dataVars, scheduleVars, guidanceVars, splitVars >>
  /\ UNCHANGED << io, steps, executed, env, loc_obs, goal, pin >>

DriverStore ==
  /\ EmaDriverReady
  /\ ema' = EmaStore(ema, params)
  /\ ema_calls' = Append(ema_calls, "store")
  /\ ret' = Ret("store", FALSE)
  /\ UNCHANGED << params, optim, sched, norm, cur_iter, use_ema, log_dir, live, ckpt, pc, it,
                  tot_iter, k, ncalls, nan_seen >>
  /\ UNCHANGED << policyVars, samplerVars, dataVars, scheduleVars, guidanceVars, splitVars >>
  /\ UNCHANGED << io, steps, executed, env, loc_obs, goal, pin >>

DriverCopyTo ==
  /\ EmaDriverReady
  /\ params' = EmaCopyTo(ema, params)
  /\ ema_calls' = Append(ema_calls, "copy_to")
  /\ ret' = Ret("copy_to", FALSE)
  /\ UNCHANGED << optim, sched, norm, cur_iter, use_ema, log_dir, ema, live, ckpt, pc, it,
                  tot_iter, k, ncalls, nan_seen >>
  /\ UNCHANGED << policyVars, samplerVars, dataVars, scheduleVars, guidanceVars, splitVars >>
  /\ UNCHANGED << io, steps, executed, env, loc_obs, goal, pin >>

\* restore; when it raises, the exception ends the driver
DriverRestore ==
  /\ EmaDriverReady
  /\ LET r == RestoreOutcome(ema, params)
     IN /\ params' = r.params
        /\ ret' = Ret("restore", r.exc)
        /\ pc' = IF r.exc THEN "raised" ELSE pc
  /\ ema_calls' = Append(ema_calls, "restore")
  /\ UNCHANGED << optim, sched, norm, cur_iter, use_ema, log_dir, ema, live, ckpt, it,
                  tot_iter, k, ncalls, nan_seen >>
  /\ UNCHANGED << policyVars, samplerVars, dataVars, scheduleVars, guidanceVars, splitVars >>
  /\ UNCHANGED << io, steps, executed, env, loc_obs, goal, pin >>

InitEma == InitRunner /\ use_ema /\ ~log_dir /\ EmaDriverUnused /\ PolicyUnused /\ SamplerUnused /\ DataUnused /\ ScheduleUnused /\ GuidanceUnused
  /\ SplitUnused

NextEma ==
  \/ DriverOptimizerStep
  \/ DriverUpdate
  \/ DriverStore
  \/ DriverCopyTo
  \/ DriverRestore

SpecEma == InitEma /\ [][NextEma]_vars

\* ------------------------------------------------ the policy's history buffer
InitPolicySpec == RunnerUnused /\ EmaDriverUnused /\ InitPolicy /\ SamplerUnused /\ DataUnused /\ ScheduleUnused /\ GuidanceUnused
  /\ SplitUnused

NextPolicy ==
  \/ PolicyAct
  \/ PolicyReset
  \/ PolicyResetAll
  \/ PolicyTest

SpecPolicy == InitPolicySpec /\ [][NextPolicy]_vars

\* ------------------------------------------------------ forward and sampler
InitSamplerSpec ==
  RunnerUnused /\ EmaDriverUnused /\ PolicyUnused /\ InitSampler /\ DataUnused /\ ScheduleUnused /\ GuidanceUnused
  /\ SplitUnused

NextSampler ==
  \/ ForwardStart
  \/ SamplerStep
  \/ SamplerReturn
  \/ ForwardReturn

SpecSampler == InitSamplerSpec /\ [][NextSampler]_vars

\* ------------------------------------------------------ dataset and windows
InitDataSpec ==
  RunnerUnused /\ EmaDriverUnused /\ PolicyUnused /\ SamplerUnused /\ InitData /\ ScheduleUnused
  /\ GuidanceUnused /\ SplitUnused

NextData ==
  \/ GetDataloaders
  \/ TrainGetItem
  \/ ValGetItem

SpecData == InitDataSpec /\ [][NextData]_vars

\* ------------------------------------------------------ claims on the runner
\* C3: a save that returns with use_ema set (store, copy_to, checkpoint write,
\* restore) leaves the live parameters exactly as they were before the store,
\* while the checkpoint written holds the shadow values.
C3_SaveRoundTrip ==
  [][(ret'.op = "save" /\ ~ret'.exc /\ use_ema)
       => (params' = params /\ ckpt' # None /\ ckpt'[1].model = ema.shadow)]_vars

\* a save has returned whose checkpoint holds shadow values that differ from the
\* live parameters it put back
C3_Witness ==
  /\ ret.op = "save" /\ ~ret.exc /\ use_ema
  /\ ckpt # None /\ ckpt[1].model # params
  /\ ema.collected = Some(params)
  /\ live = "train"

\* C7: outside the rollout and evaluation blocks and outside save, the live
\* parameters are never left EMA-substituted, whichever way the block was left.
C7_RestoredOnEveryExit == (pc \notin InsideInference) => live = "train"

\* steps that run policy.update and ema_helper.update
TrainOps == {"train"}
\* steps that open a swap scope (store and copy_to)
SwapOps == {"sim_enter", "eval_enter", "save"}

\* C8: within learn, a training step (policy.update, then the EMA update) only
\* starts with the live parameters restored, and a swap scope only opens when
\* no other one is open.
C8_NoTrainingWhileSubstituted ==
  [][/\ (ret'.op \in TrainOps => (live = "train" /\ live' = "train"))
     /\ (ret'.op \in SwapOps => live = "train")]_vars

\* a training step has run, with use_ema set, after a swap scope was opened and
\* closed
C8_Witness ==
  /\ ret.op = "train" /\ use_ema
  /\ ema.collected # None
  /\ live = "train"
  /\ sched > 1

\* C9: a load that raises leaves model parameters, optimizer state, normalizer
\* statistics and training iteration as they were before the call.
C9_LoadAllOrNothing ==
  [][(ret'.op = "load" /\ ret'.exc)
       => UNCHANGED << params, optim, norm, cur_iter >>]_vars

\* C10: once an update of the current learn call has returned a NaN or infinite
\* loss, that learn call performs no further update.
C10_NanHaltsTraining == [][nan_seen => (sched' = sched /\ optim' = optim)]_vars

\* a load of the runner's own checkpoint has returned
\* the positions of a running learn call, and the iterations it has trained
InLearn == pc \in {"loop", "sim", "eval", "evalrun", "train", "log"}
IterationsTrained == (it - (tot_iter - NumIters)) + (IF pc = "log" THEN 1 ELSE 0)

\* C23: after k iterations of a learn call the optimizer has stepped k times,
\* the learning-rate schedule k times and the EMA tracker has been updated k
\* times, each iteration stepping the optimizer, then the schedule, then the
\* tracker.
C23_OneStepPerIteration ==
  InLearn =>
    /\ steps.optimizer = IterationsTrained
    /\ steps.scheduler = IterationsTrained
    /\ steps.ema = IterationsTrained
    /\ IterationsTrained > 0 => steps.order = << "optimizer", "scheduler", "ema" >>

\* a learn call has trained all its iterations, one of them with a
\* simulation rollout before it
C23_Witness ==
  /\ pc = "loop"
  /\ it = tot_iter
  /\ steps.optimizer = NumIters
  /\ steps.ema = NumIters
  /\ env.epoch > 0

OwnLoadReturns == ret'.op = "load" /\ ~ret'.exc /\ io'.loaded = "own"

\* C15 as stated: after save and a load of that checkpoint, model parameters,
\* optimizer state, normalizer statistics and iteration are those the runner
\* had when save was called, with use_ema set or unset.
C15_LoadRestoresLive ==
  [][OwnLoadReturns =>
       /\ params' = io.saved[1].params
       /\ optim' = io.saved[1].optim
       /\ norm' = io.saved[1].norm
       /\ cur_iter' = io.saved[1].iter]_vars

\* C15, amended: optimizer state, normalizer statistics and iteration are those
\* of the time of the save; the model parameters are the live ones of that time
\* when use_ema is unset and the EMA shadow values of that time when it is set.
C15_LoadRestoresSaved ==
  [][OwnLoadReturns =>
       /\ params' = IF use_ema THEN io.saved[1].shadow ELSE io.saved[1].params
       /\ optim' = io.saved[1].optim
       /\ norm' = io.saved[1].norm
       /\ cur_iter' = io.saved[1].iter]_vars

\* with use_ema set, a load of the runner's own checkpoint has returned and
\* the parameters it put in are the shadow values, not the live ones at the save
C15_Witness ==
  /\ ret.op = "load" /\ ~ret.exc /\ io.loaded = "own"
  /\ use_ema
  /\ io.saved[1].shadow # io.saved[1].params
  /\ params = io.saved[1].shadow
  /\ optim > 0

\* ---------------------------------------------------- claims on the tracker
\* C6: a restore called when no store precedes it raises and changes nothing;
\* it never returns normally.
C6_RestoreWithoutStoreRaises ==
  [][(/\ Len(ema_calls') = Len(ema_calls) + 1
      /\ ema_calls'[Len(ema_calls')] = "restore"
      /\ "store" \notin Range(ema_calls))
       => (ret'.exc /\ pc' = "raised" /\ params' = params)]_vars

\* a restore with no store before it (but a copy_to) has raised
C6_Witness ==
  /\ ema_calls # << >>
  /\ ema_calls[Len(ema_calls)] = "restore"
  /\ "store" \notin Range(ema_calls)
  /\ "copy_to" \in Range(ema_calls)
  /\ ret = Ret("restore", TRUE)
  /\ pc = "raised"

\* ------------------------------------------------- claims on the dataset
Window == dcfg.T_cond + dcfg.T - 1

\* where episode ep sits: its partition's indices and slices, and its position
\* (from 0) in the partition
InTrain(ep) == \E j \in DOMAIN train_idx : train_idx[j] = ep
PartIdx(ep) == IF InTrain(ep) THEN train_idx ELSE val_idx
PartSlices(ep) == IF InTrain(ep) THEN train_slices ELSE val_slices
PosOf(ep) == (CHOOSE j \in DOMAIN PartIdx(ep) : PartIdx(ep)[j] = ep) - 1

\* the windows SlicerWrapper holds for episode ep, in the order it holds them
WindowsOf(ep) ==
  SelectSeq(PartSlices(ep), LAMBDA sl : sl[1] = PosOf(ep))

\* the stride-1 windows of length Window over an item of length len
StrideOneWindows(ep, len) ==
  [j \in 1 .. Max0(len - Window + 1) |-> << PosOf(ep), j - 1, j - 1 + Window >>]

\* the length of the padded row of episode ep
PaddedLen(ep) == Len(data[1].obs[ep])

\* the length of episode ep with its T_cond - 1 leading steps, without the
\* padding behind it
ValidLen(ep) == dcfg.lens[ep] + dcfg.T_cond - 1

\* C4 as stated, L being the length after padding: every episode has exactly
\* max(0, L - W + 1) windows.
C4_WindowsOfPaddedLength ==
  d_pc = "ready" =>
    \A ep \in DOMAIN dcfg.lens : Len(WindowsOf(ep)) = Max0(PaddedLen(ep) - Window + 1)

\* C4, amended: with L the episode's true length plus the T_cond - 1 leading
\* steps, the episode has exactly max(0, L - W + 1) windows, one per start
\* index with stride 1, each of length W; none when L < W.
C4_WindowsOfValidLength ==
  d_pc = "ready" =>
    \A ep \in DOMAIN dcfg.lens :
      /\ WindowsOf(ep) = StrideOneWindows(ep, ValidLen(ep))
      /\ Len(WindowsOf(ep)) = Max0(ValidLen(ep) - Window + 1)
      /\ \A j \in DOMAIN WindowsOf(ep) : WindowsOf(ep)[j][3] - WindowsOf(ep)[j][2] = Window
      /\ (ValidLen(ep) < Window => WindowsOf(ep) = << >>)

\* a dataset is windowed in which a padded episode has windows, fewer than the
\* longest one, and another episode is too short for any
C4_Witness ==
  /\ d_pc = "ready"
  /\ \E e1, e2 \in DOMAIN dcfg.lens :
       /\ dcfg.lens[e1] < dcfg.lens[e2]
       /\ Len(WindowsOf(e1)) > 0
       /\ Len(WindowsOf(e1)) < Len(WindowsOf(e2))
  /\ item # None

\* a dataset in which an episode is too short for any window
C4_WitnessShort ==
  /\ d_pc = "ready"
  /\ \E ep \in DOMAIN dcfg.lens : ValidLen(ep) < Window /\ WindowsOf(ep) = << >>

\* C5: for episodes of lengths 50 and 30 with T_cond = 4 and T = 8, both
\* episodes are padded to length 50 (behind the 3 leading steps), the mask of
\* episode 2 is 3 leading ones, 30 ones and 20 trailing zeros, and episode 1
\* has 43 windows.
C5_Scenario ==
  (d_pc = "ready" /\ dcfg = Scenario) =>
    /\ \A ep \in 1 .. 2 :
         /\ Len(data[1].obs[ep]) - (dcfg.T_cond - 1) = 50
         /\ Len(data[1].action[ep]) - (dcfg.T_cond - 1) = 50
         /\ Len(data[1].mask[ep]) = Len(data[1].obs[ep])
    /\ data[1].mask[2] = Fill(3, 1) \o Fill(30, 1) \o Fill(20, 0)
    /\ Len(WindowsOf(1)) = 43

\* the scenario's dataset is built and windowed, and a window of it was read
C5_Witness ==
  /\ d_pc = "ready" /\ dcfg = Scenario
  /\ Len(train_slices) + Len(val_slices) > 43
  /\ item # None /\ Len(item[1].obs) = 11

\* the longest episode's true length
LongestLen ==
  CHOOSE m \in { dcfg.lens[ep] : ep \in DOMAIN dcfg.lens } :
    \A ep \in DOMAIN dcfg.lens : dcfg.lens[ep] <= m

\* C12: the validity mask of an episode of true length n, with M the longest
\* episode's length, has length M + T_cond - 1 and is T_cond - 1 ones, n ones,
\* then M - n zeros; it never rises from 0 to 1.
C12_MaskShape ==
  d_pc = "ready" =>
    \A ep \in DOMAIN dcfg.lens :
      LET m == data[1].mask[ep]
          n == dcfg.lens[ep]
      IN /\ Len(m) = LongestLen + dcfg.T_cond - 1
         /\ \A t \in DOMAIN m :
              m[t] = IF t <= dcfg.T_cond - 1 + n THEN 1 ELSE 0
         /\ \A t \in 1 .. (Len(m) - 1) : m[t] >= m[t + 1]

\* a dataset is built with a leading prefix and an episode shorter than the
\* longest, whose mask ends in zeros
C12_Witness ==
  /\ d_pc = "ready"
  /\ dcfg.T_cond > 1
  /\ \E ep \in DOMAIN dcfg.lens :
       /\ dcfg.lens[ep] < LongestLen
       /\ data[1].mask[ep][1] = 1
       /\ data[1].mask[ep][Len(data[1].mask[ep])] = 0

\* the validity mask over the steps of the delivered window
ItemMask ==
  LET idxs == IF item_from = "train" THEN train_idx ELSE val_idx
      row == data[1].mask[idxs[item_slice[1] + 1]]
  IN SubSeq(row, item_slice[2] + 1, item_slice[3])

EpisodesOf(idxs) == { idxs[j] : j \in DOMAIN idxs }
EpisodeOfObs(v) == v \div 100
EpisodeOfAct(v) == (0 - v) \div 100

\* the episodes the steps of a delivered window come from (0 is padding)
ItemEpisodes ==
  { EpisodeOfObs(item[1].obs[j]) : j \in { i \in DOMAIN item[1].obs : item[1].obs[i] # 0 } }
    \cup { EpisodeOfAct(item[1].action[j]) :
              j \in { i \in DOMAIN item[1].action : item[1].action[i] # 0 } }

\* C11: every episode is in exactly one of the train and validation
\* partitions, every window of either set names an episode position of its own
\* partition, and the steps a set delivers come from its own partition's
\* episodes only.
C11_NoLeakAcrossSplit ==
  d_pc = "ready" =>
    /\ \A ep \in DOMAIN dcfg.lens :
         (ep \in EpisodesOf(train_idx)) # (ep \in EpisodesOf(val_idx))
    /\ Len(train_idx) + Len(val_idx) = Len(dcfg.lens)
    /\ \A j \in DOMAIN train_slices : train_slices[j][1] \in 0 .. (Len(train_idx) - 1)
    /\ \A j \in DOMAIN val_slices : val_slices[j][1] \in 0 .. (Len(val_idx) - 1)
    /\ (item_from = "train" => ItemEpisodes \subseteq EpisodesOf(train_idx))
    /\ (item_from = "val" => ItemEpisodes \subseteq EpisodesOf(val_idx))

\* both sets hold windows, and a window of the validation set was delivered
\* whose steps are those of the one validation episode
C11_Witness ==
  /\ d_pc = "ready"
  /\ train_slices # << >> /\ val_slices # << >>
  /\ item_from = "val"
  /\ ItemEpisodes = EpisodesOf(val_idx)

\* ------------------------------------------------- claims on the sampler
\* C1: the trajectory the sampler returns equals target at every entry where
\* mask is 1, for every mask/target pair and every initial noise.
C1_InpaintingPinHolds ==
  s_pc = "sampled" => \A e \in DOMAIN x : mask[e] = 1 => x[e] = tgt[e]

\* the sampler has returned a trajectory with pinned and free entries, one of
\* the free entries differing from the target
C1_Witness ==
  /\ s_pc = "sampled"
  /\ ncalls_den >= SamplingSteps
  /\ \E e \in DOMAIN x : mask[e] = 1 /\ tgt[e] # 0
  /\ \E e \in DOMAIN x : mask[e] = 0 /\ x[e] # tgt[e]

\* C24: act returns the action components of the denormalized trajectory at
\* step T_cond when inpaint_obs is set and at step 1 otherwise (counting from
\* 1); in both cases that step was cut from window position T_cond, the
\* position of the newest observation of the conditioning window.
C24_ActionAtNewestObservation ==
  act_out # None =>
    LET j == IF fcfg.inpaint_obs THEN TCond ELSE 1
    IN /\ DOMAIN act_out[1].action = (ObsDim + 1) .. InputDim
       /\ \A d \in (ObsDim + 1) .. InputDim : act_out[1].action[d] = fwd_out[1][<< j, d >>]
       /\ WindowPos(fcfg, ActIndex(fcfg)) = TCond

\* act has returned with inpaint_obs set from a trajectory whose action at the
\* newest history step differs from the action at its first step
C24_Witness ==
  /\ act_out # None
  /\ fcfg.inpaint_obs
  /\ \E d \in (ObsDim + 1) .. InputDim :
       /\ fwd_out[1][<< TCond, d >>] # fwd_out[1][<< 1, d >>]
       /\ act_out[1].action[d] = fwd_out[1][<< TCond, d >>]

\* what dimension d holds in the output statistics: calculate_norm_data
\* concatenates [all_actions, all_obs]
StatsKind(d) == IF d <= ActDim THEN "action" ELSE "obs"

\* what dimension d holds in the training input: process concatenates
\* [input_obs, input_act] before scale_output
InputKind(d) == IF d <= ObsDim THEN "obs" ELSE "action"

\* what act reads dimension d of the denormalized trajectory as:
\* x[..., :obs_dim] observations, x[..., obs_dim:] actions
ActSliceKind(d) == IF d <= ObsDim THEN "obs" ELSE "action"

\* the values the data of a kind takes: observations 1 .. MaxObs, actions -1 .. 1
DataRange(kind) == IF kind = "obs" THEN 1 .. MaxObs ELSE (0 - 1) .. 1

\* C22: every dimension of the trajectory is the same kind, observation or
\* action, in the output statistics, in the training input and in act's
\* slicing, so that a denormalized value lies in the range of the data act
\* reads it as.
C22_OneDimensionOrder ==
  fwd_out # None =>
    \A e \in DOMAIN fwd_out[1] :
      /\ StatsKind(e[2]) = InputKind(e[2])
      /\ InputKind(e[2]) = ActSliceKind(e[2])
      /\ fwd_out[1][e] \in DataRange(ActSliceKind(e[2]))

\* the history entries of a trajectory that the final-observation pin does
\* not write over
HistoryEntries(cfg) ==
  { e \in CondEntries : ~(cfg.inpaint_final_obs /\ e[1] = InputLen(cfg)) }

\* forward is running, or has run, for a call of act (no input to score against)
InAct == s_pc \in {"sampling", "sampled"} /\ fdata.input = None

\* C21 as stated: in every call of act, whatever the configuration, the
\* history steps' observation components are pinned to the normalized history.
C21_HistoryAlwaysPinned ==
  InAct =>
    \A e \in HistoryEntries(fcfg) :
      e \in DOMAIN mask /\ mask[e] = 1 /\ tgt[e] = fdata.obs[e]

\* C21: in every call of act with inpaint_obs set, the observation components
\* of the history steps are pinned to the normalized history observations,
\* save a step that is also the final step pinned by inpaint_final_obs; with
\* inpaint_obs unset no entry is pinned to the history.
C21_HistoryPinnedWhenInpainting ==
  InAct =>
    /\ fcfg.inpaint_obs =>
         \A e \in HistoryEntries(fcfg) :
           e \in DOMAIN mask /\ mask[e] = 1 /\ tgt[e] = fdata.obs[e]
    /\ ~fcfg.inpaint_obs =>
         \A e \in DOMAIN mask :
           mask[e] = 1 => (fcfg.inpaint_final_obs /\ e[1] = InputLen(fcfg))

\* act runs with inpaint_obs set on a history buffer holding observations
C21_Witness ==
  /\ InAct
  /\ fcfg.inpaint_obs
  /\ \A e \in CondEntries : mask[e] = 1 /\ tgt[e] = fdata.obs[e]
  /\ \E e \in CondEntries : fdata.obs[e] # ScaleInput(0)

\* the noise level the sampler is at on level index j
LevelAt(cfg, j) == IF cfg.sampler_type = "ddpm" THEN DdpmLevel(j) ELSE Sigma(j)

\* C20: the estimate passed to the denoiser holds, at every masked entry, the
\* target plus noise scaled to the level of that step; this holds for every
\* step of both samplers, repeated steps included.
C20_DenoiserSeesCorrected ==
  den_in # None =>
    \E eps \in NoiseTensors(fcfg) :
      \A e \in DOMAIN mask :
        mask[e] = 1 => den_in[1].x[e] = tgt[e] + eps[e] * LevelAt(fcfg, den_in[1].lvl)

\* the denoiser has been called on a step repeated by a resampling jump, with
\* a non-zero target pinned
C20_Witness ==
  /\ den_in # None
  /\ den_in[1].rep >= 1
  /\ \E e \in DOMAIN mask : mask[e] = 1 /\ tgt[e] # 0

\* the sampler under the scheduling of a sequential loop: once entered it
\* takes its next step, and returns after the last one
SpecSamplerFair ==
  SpecSampler /\ WF_vars(SamplerStep) /\ WF_vars(SamplerReturn) /\ WF_vars(ForwardReturn)

\* the denoiser calls of a whole run: one per level, and every complete band
\* of jump_length levels once more per further repetition
ExpectedCalls(cfg) ==
  IF cfg.sampler_type = "ddpm" THEN SamplingSteps
  ELSE SamplingSteps
         + (cfg.resampling_steps - 1) * cfg.jump_length * (SamplingSteps \div cfg.jump_length)

\* C19: a sampler run terminates, and the number of denoiser calls it makes
\* is fixed by the schedule length, resampling_steps and jump_length, whatever
\* the data, the noise drawn and the denoiser's answers.
C19_SamplerTerminates ==
  /\ [](s_pc = "sampling" => ncalls_den <= ExpectedCalls(fcfg))
  /\ [](s_pc = "sampled" => ncalls_den = ExpectedCalls(fcfg))
  /\ (s_pc = "sampling" ~> s_pc = "sampled")

\* a run with resampling has returned after repeating a band
C19_Witness ==
  /\ s_pc = "sampled"
  /\ fcfg.resampling_steps > 1
  /\ ncalls_den > SamplingSteps
  /\ ncalls_den = ExpectedCalls(fcfg)

\* ------------------------------------------- claims on the history buffer
\* C16: a test call that scores a batch leaves the model parameters, the
\* optimizer state, the learning-rate schedule and the history buffer as they
\* were, called directly or by learn's evaluation.
C16_TestChangesNothing ==
  [][(p_ret'.op = "test" /\ p_ret'.calls # p_ret.calls) \/ (ret'.op = "eval_step" /\ ~ret'.exc /\ k' # k)
       => UNCHANGED << params, optim, sched, obs_hist >>]_vars

\* a test call has returned on a policy whose history buffer holds
\* observations in every row
C16_Witness ==
  /\ p_ret.op = "test"
  /\ p_ret.before = obs_hist
  /\ \A e \in Envs : obs_hist[e][TCond] # 0

\* the last T_cond entries of q, oldest first, with zeros in front when q is
\* shorter
LastWithZeros(q) ==
  [t \in 1 .. TCond |-> IF Len(q) - TCond + t >= 1 THEN q[Len(q) - TCond + t] ELSE 0]

\* C14: every row of the history buffer is the observations pushed since the
\* environment's last reset, the most recent T_cond of them, oldest first,
\* with zeros in front; the conditioning window of an inference call is the
\* whole buffer, the observation just pushed included.
C14_HistoryIsLastPushed ==
  /\ \A e \in Envs : obs_hist[e] = LastWithZeros(pushed[e])
  /\ (p_ret.op = "act" =>
        /\ p_ret.cond = obs_hist
        /\ \A e \in Envs : p_ret.cond[e][TCond] = pushed[e][Len(pushed[e])])

\* an inference call after which an environment has had more pushes than the
\* buffer is long: the oldest one is no longer in its row
C14_Witness ==
  /\ p_ret.op = "act"
  /\ \E e \in Envs :
       /\ Len(pushed[e]) > TCond
       /\ \A t \in 1 .. TCond : obs_hist[e][t] # pushed[e][1]

\* C2: reset(dones) zeroes the rows of exactly the environments whose done flag
\* is set and leaves every other row unchanged; reset() zeroes every row.
C2_ResetOnlyDone ==
  [][/\ (p_ret'.op = "reset" =>
          \A e \in Envs :
            obs_hist'[e] = IF p_ret'.dones[e] # 0 THEN ZeroRow ELSE obs_hist[e])
     /\ (p_ret'.op = "reset_all" => \A e \in Envs : obs_hist'[e] = ZeroRow)]_vars

\* a reset(dones) on a buffer with two filled rows, one environment done and
\* one not: the done row is zero, the other kept its content
C2_Witness ==
  /\ p_ret.op = "reset"
  /\ \E e1, e2 \in Envs :
       /\ p_ret.dones[e1] # 0 /\ p_ret.dones[e2] = 0
       /\ \A t \in 1 .. TCond : p_ret.before[e1][t] # 0 /\ p_ret.before[e2][t] # 0
       /\ obs_hist[e1] = ZeroRow
       /\ obs_hist[e2] = p_ret.before[e2]

\* ------------------------------------------------------- the noise schedule
InitScheduleSpec ==
  RunnerUnused /\ EmaDriverUnused /\ PolicyUnused /\ SamplerUnused /\ DataUnused
  /\ InitSchedule /\ GuidanceUnused /\ SplitUnused

NextSchedule == BuildSchedule

SpecSchedule == InitScheduleSpec /\ [][NextSchedule]_vars

\* C17: the noise-level sequence of every schedule family is strictly
\* decreasing, starts at sigma_max (the last training timestep for the discrete
\* schedule) and ends at zero (timestep 0 for the discrete schedule).
C17_LevelsDecreaseToZero ==
  sigmas # None =>
    LET q == sigmas[1]
    IN /\ Len(q) >= 1
       /\ \A i \in 1 .. (Len(q) - 1) : LevelAbove(q[i], q[i + 1])
       /\ q[1] = TopLevel(sch_in)
       /\ q[Len(q)].num = 0
       /\ q[Len(q)].fam = IF sch_in.family = "ddpm" THEN "ddpm" ELSE "zero"

\* an exponential schedule of several levels between a sigma_min below 1 and a
\* sigma_max above 1 has been built
C17_Witness ==
  /\ sigmas # None
  /\ sch_in.family = "exponential"
  /\ sch_in.lo < 0 /\ sch_in.hi > 0
  /\ Len(sigmas[1]) = sch_in.n + 1
  /\ sch_in.n >= 3

\* ------------------------------------------------------ the guided denoiser
InitGuidanceSpec ==
  RunnerUnused /\ EmaDriverUnused /\ PolicyUnused /\ SamplerUnused /\ DataUnused
  /\ ScheduleUnused /\ InitGuidance /\ SplitUnused

NextGuidance == GuidedCall

SpecGuidance == InitGuidanceSpec /\ [][NextGuidance]_vars

\* C18: with guidance weight 1 the wrapper's inference output is the output
\* of the conditional call, for every estimate, noise level and conditioning.
C18_UnitGuidanceIsConditional ==
  (g_out # None /\ g_in.w = 1) =>
    g_out[1] = CondCall(g_in.model, g_in.x, g_in.sigma, g_in.cond)

\* a call at guidance weight 1 whose conditional and unconditional predictions
\* differ has returned
C18_Witness ==
  /\ g_out # None
  /\ g_in.w = 1
  /\ CondCall(g_in.model, g_in.x, g_in.sigma, g_in.cond)
       # UncondCall(g_in.model, g_in.x, g_in.sigma, g_in.cond)

\* ------------------------------------------------ the episode segmentation
InitSplitSpec ==
  RunnerUnused /\ EmaDriverUnused /\ PolicyUnused /\ SamplerUnused /\ DataUnused
  /\ ScheduleUnused /\ GuidanceUnused /\ InitSplit

NextSplit == SplitEpisodes

SpecSplit == InitSplitSpec /\ [][NextSplit]_vars

RECURSIVE ConcatAll(_)
ConcatAll(segs) == IF segs = << >> THEN << >> ELSE Head(segs) \o ConcatAll(Tail(segs))

\* the position in the flattened sequence, counted from 1, at which segment j begins
SegmentStart(segs, j) == 1 + Len(ConcatAll(SubSeq(segs, 1, j - 1)))

\* C25: the segments in order give back the flattened sequence; there is one
\* per start flag; each is non-empty, begins at a flagged step and holds no
\* other flagged step; observation and action segments have the same bounds.
C25_SegmentsPartitionAtFlags ==
  ep_splits # None =>
    LET flags == Flatten(MarkStarts(first_steps))
        so == ep_splits[1].obs
        sa == ep_splits[1].action
    IN /\ ConcatAll(so) = RawFlat(first_steps, RawObs)
       /\ ConcatAll(sa) = RawFlat(first_steps, RawAct)
       /\ Len(so) = Cardinality({ i \in DOMAIN flags : flags[i] = 1 })
       /\ Len(sa) = Len(so)
       /\ \A j \in DOMAIN so :
            /\ Len(so[j]) >= 1
            /\ Len(sa[j]) = Len(so[j])
            /\ flags[SegmentStart(so, j)] = 1
            /\ \A i \in (SegmentStart(so, j) + 1) .. (SegmentStart(so, j) + Len(so[j]) - 1) :
                 flags[i] = 0

\* a recording of two rows with an episode start inside a row has been split
\* into segments of different lengths
C25_Witness ==
  /\ ep_splits # None
  /\ Len(first_steps) = 2
  /\ \E t \in 2 .. Len(first_steps[1]) : first_steps[1][t] = 1
  /\ Len(ep_splits[1].obs) >= 3
  /\ \E i, j \in DOMAIN ep_splits[1].obs : Len(ep_splits[1].obs[i]) # Len(ep_splits[1].obs[j])

\* the ranges (start, end) of the windows held for an episode
WindowRanges(ep) == { << WindowsOf(ep)[j][2], WindowsOf(ep)[j][3] >> : j \in DOMAIN WindowsOf(ep) }

\* C26: for an episode of true length n the windows are exactly the
\* max(0, n - T + 1) contiguous ranges of length T_cond + T - 1 inside the
\* first T_cond - 1 + n steps of the padded episode, one per start, and no
\* step of a window lies beyond the episode's true end.
C26_WindowsInsideTrueLength ==
  d_pc = "ready" =>
    \A ep \in DOMAIN dcfg.lens :
      LET n == dcfg.lens[ep]
      IN /\ Len(WindowsOf(ep)) = Max0(n - dcfg.T + 1)
         /\ Cardinality(WindowRanges(ep)) = Len(WindowsOf(ep))
         /\ WindowRanges(ep) =
              { << st, st + dcfg.T_cond + dcfg.T - 1 >> : st \in 0 .. (n - dcfg.T) }
         /\ \A w \in WindowRanges(ep) :
              /\ w[2] <= dcfg.T_cond - 1 + n
              /\ \A p \in (w[1] + 1) .. w[2] :
                   /\ data[1].mask[ep][p] = 1
                   /\ (p > dcfg.T_cond - 1 => data[1].obs[ep][p] = ObsAt(ep, p - dcfg.T_cond + 1))

\* a windowed dataset with conditioning steps in front (T_cond >= 2) in which
\* an episode shorter than the longest has several windows, the last of them
\* ending at its true end with padding behind it in the row
C26_Witness ==
  /\ d_pc = "ready"
  /\ dcfg.T_cond >= 2
  /\ \E ep \in DOMAIN dcfg.lens :
       /\ dcfg.lens[ep] < LongestLen
       /\ Len(WindowsOf(ep)) >= 2
       /\ << dcfg.lens[ep] - dcfg.T, dcfg.lens[ep] + dcfg.T_cond - 1 >> \in WindowRanges(ep)
       /\ PaddedLen(ep) > dcfg.lens[ep] + dcfg.T_cond - 1

\* a learn call starts right after a load of the runner's own checkpoint
ResumesFromOwnCheckpoint ==
  pc = "idle" /\ ret.op = "load" /\ ~ret.exc /\ io.loaded = "own" /\ pc' = "loop"

\* C27: a learn call that resumes from a loaded checkpoint starts at an
\* iteration index that was not executed before the checkpoint was written,
\* so that no index is executed twice across save, load, learn.
C27_ResumeStartsAtNewIteration ==
  [][ResumesFromOwnCheckpoint => \A j \in DOMAIN io.done : io.done[j] # it']_vars

\* the first policy.act of a simulation rollout is taken
FirstActOfRollout == pc = "sim" /\ k = 0 /\ k' = 1

\* C28: in every simulation rollout of learn the observation passed to the
\* first policy.act is the observation of the environment state produced by
\* the env.reset that opened the rollout.
C28_FirstActSeesResetObservation ==
  [][FirstActOfRollout => loc_obs.val = env.obs]_vars

\* C29: at the first policy.act of every simulation rollout each
\* environment's history buffer is all zero before the push.
C29_HistoryZeroAtRolloutStart ==
  [][FirstActOfRollout => obs_hist = ZeroHist]_vars

\* the final-step target that pins the goal g: the goal, scaled as a position
ScaledGoal(g) == [d \in 1 .. ObsDim |-> ScalePos(g[d])]

\* C30: the final-step observation act pins under inpaint_final_obs is the
\* goal learn took from the environment after the reset that opened the
\* rollout and handed to the policy before the first act.
C30_PinIsEnvironmentGoal ==
  [][(pc = "sim" /\ k' = k + 1) =>
       /\ goal = Some(env.goal)
       /\ pin' = Some(ScaledGoal(env.goal))]_vars

====
